---- MODULE Spec2Model ----
(***************************************************************************)
(* A model of patina-qemu's QEMU launch tooling:                           *)
(*   - QemuCommandBuilder (Platforms/Common/Qemu/QemuCommandBuilder.py),   *)
(*     the stateful builder of the emulator's argument list;               *)
(*   - the Runner of the Q35 and SBSA QemuRunner plugins, which probes the *)
(*     emulator's version, drives the builder, runs the emulator and       *)
(*     normalises its exit code.                                           *)
(* Tokens are modelled as the strings the code formats.  Python values     *)
(* (None, str, int, bool, list, dict) are tagged records so that           *)
(* truthiness and str() behave as in Python.                               *)
(***************************************************************************)
EXTENDS Integers, Sequences, FiniteSets, TLC

VARIABLES
    builder,    \* the QemuCommandBuilder object: its fields
    hist,       \* the calls made on the builder so far, oldest first
    run         \* the state of one Runner invocation of a plugin

vars == <<builder, hist, run>>

(***************************************************************************)
(* Bounds of the model.                                                    *)
(***************************************************************************)
\* The number of builder calls explored in one behaviour.
MaxCalls == 2

\* The number of builder calls in one behaviour of the interleaving
\* specification UsbSpec.
MaxUsbCalls == 3

(***************************************************************************)
(* Python values.                                                          *)
(***************************************************************************)
None == [t |-> "NoneType"]
PyStr(s) == [t |-> "str", s |-> s]
PyInt(i) == [t |-> "int", i |-> i]
PyBool(v) == [t |-> "bool", v |-> v]
PyList(xs) == [t |-> "list", xs |-> xs]
PyDict(d) == [t |-> "dict", d |-> d]

\* Python's truth value of an object.
Truthy(v) ==
    CASE v.t = "NoneType" -> FALSE
      [] v.t = "str" -> v.s # ""
      [] v.t = "int" -> v.i # 0
      [] v.t = "bool" -> v.v
      [] v.t = "list" -> v.xs # <<>>
      [] v.t = "dict" -> DOMAIN v.d # {}

Digit(d) == SubSeq("0123456789", d + 1, d + 1)

RECURSIVE NatStr(_)
NatStr(n) == IF n < 10 THEN Digit(n) ELSE NatStr(n \div 10) \o Digit(n % 10)

\* str(int)
IntStr(i) == IF i < 0 THEN "-" \o NatStr(-i) ELSE NatStr(i)

\* str(v), as the f-strings of the builder format a value (scalars only).
Str(v) ==
    CASE v.t = "NoneType" -> "None"
      [] v.t = "str" -> v.s
      [] v.t = "int" -> IntStr(v.i)
      [] v.t = "bool" -> IF v.v THEN "True" ELSE "False"

(***************************************************************************)
(* Strings.                                                                *)
(***************************************************************************)
Char(s, i) == SubSeq(s, i, i)

\* sub occurs in s
Contains(s, sub) ==
    \E i \in 1..(Len(s) - Len(sub) + 1) : SubSeq(s, i, i + Len(sub) - 1) = sub

StartsWith(s, pre) == Len(pre) <= Len(s) /\ SubSeq(s, 1, Len(pre)) = pre

EndsWith(s, suf) ==
    Len(suf) <= Len(s) /\ SubSeq(s, Len(s) - Len(suf) + 1, Len(s)) = suf

\* The greatest index of character c in s, 0 when there is none (str.rfind + 1).
LastIndexOf(s, c) ==
    LET hits == {i \in 1..Len(s) : Char(s, i) = c}
    IN  IF hits = {} THEN 0 ELSE CHOOSE i \in hits : \A j \in hits : j <= i

UpperChars == "ABCDEFGHIJKLMNOPQRSTUVWXYZ"
LowerChars == "abcdefghijklmnopqrstuvwxyz"

LowerChar(c) ==
    LET hits == {i \in 1..26 : Char(UpperChars, i) = c}
    IN  IF hits = {} THEN c ELSE Char(LowerChars, CHOOSE i \in hits : TRUE)

\* str.lower()
RECURSIVE Lower(_)
Lower(s) == IF s = "" THEN "" ELSE LowerChar(Char(s, 1)) \o Lower(Tail(s))

\* str.replace(c, "") for a one-character c
RECURSIVE RemoveChar(_, _)
RemoveChar(s, c) ==
    IF s = "" THEN ""
    ELSE (IF Char(s, 1) = c THEN "" ELSE Char(s, 1)) \o RemoveChar(Tail(s), c)

\* str(pathlib.Path(s)) on a POSIX host: repeated and trailing separators go.
RECURSIVE PathStr(_)
PathStr(s) ==
    IF Len(s) <= 1 THEN (IF s = "" THEN "." ELSE s)
    ELSE IF EndsWith(s, "/") THEN PathStr(SubSeq(s, 1, Len(s) - 1))
    ELSE IF Contains(s, "//")
         THEN LET i == CHOOSE k \in 1..(Len(s) - 1) : SubSeq(s, k, k + 1) = "//"
              IN  PathStr(SubSeq(s, 1, i) \o SubSeq(s, i + 2, Len(s)))
    ELSE s

\* pathlib.Path(s).suffix: the last dot-suffix of the final path component.
PathSuffix(s) ==
    LET p    == PathStr(s)
        name == SubSeq(p, LastIndexOf(p, "/") + 1, Len(p))
        i    == LastIndexOf(name, ".")
    IN  IF 1 < i /\ i < Len(name) THEN SubSeq(name, i, Len(name)) ELSE ""

(***************************************************************************)
(* The host's filesystem, as os.path.isfile and os.path.isdir see it.      *)
(***************************************************************************)
FsFiles == {"/img/dfci.img", "/img/win.VHD", "/img/data.qcow2"}
FsDirs == {"/shared"}

isfile(p) == p.t = "str" /\ p.s \in FsFiles
isdir(p) == p.t = "str" /\ p.s \in FsDirs

\* datetime.datetime.now().strftime("%m/%d/%Y")
NowDate == "11/02/2026"

(***************************************************************************)
(* QemuCommandBuilder.                                                     *)
(***************************************************************************)
QemuArchitecture == {"Q35", "SBSA"}

\* The idempotency flags of the builder.
Flags ==
    {"rom_path_added", "machine_added", "cpu_added", "firmware_added",
     "usb_controller_added", "usb_mouse_added", "usb_keyboard_added",
     "memory_added", "network_added", "smbios_added", "tpm_added",
     "display_added", "gdb_server_added", "serial_port_added",
     "monitor_port_added"}

\* What a call on the builder yields: the object after the call, the
\* exception it raised ("" when it returned), and the value it returned.
Returns(b) == [self |-> b, exc |-> "", ret |-> "self"]
Raises(b, e) == [self |-> b, exc |-> e, ret |-> "none"]

\* self._args.extend(tokens)
extend_replacing(b, tokens) == [b EXCEPT !.args = tokens]
extend(b, tokens) == [b EXCEPT !.args = @ \o tokens]

\* self._<flag> = True
set_flag_forgetting(b, flag) == b
set_flag(b, flag) == [b EXCEPT ![flag] = TRUE]

\* QemuCommandBuilder(executable, architecture)
QemuCommandBuilder(executable, architecture) ==
    LET fresh ==
            [executable |-> executable,
             architecture |-> architecture,
             args |-> <<>>,
             rom_path_added |-> FALSE,
             machine_added |-> FALSE,
             cpu_added |-> FALSE,
             firmware_added |-> FALSE,
             usb_controller_added |-> FALSE,
             usb_mouse_added |-> FALSE,
             usb_keyboard_added |-> FALSE,
             usb_storage_index |-> 0,
             memory_added |-> FALSE,
             network_added |-> FALSE,
             smbios_added |-> FALSE,
             tpm_added |-> FALSE,
             display_added |-> FALSE,
             gdb_server_added |-> FALSE,
             serial_port_added |-> FALSE,
             monitor_port_added |-> FALSE]
    IN  IF architecture = "Q35"
        THEN extend(fresh,
                 <<"-debugcon", "stdio",
                   "-global", "ICH9-LPC.disable_s3=1",
                   "-global", "isa-debugcon.iobase=0x402",
                   "-device", "isa-debug-exit,iobase=0xf4,iosize=0x04">>)
        ELSE fresh

with_rom_path(b, rom_dir) ==
    IF b.rom_path_added THEN Returns(b)
    ELSE IF ~Truthy(rom_dir) THEN Returns(b)
    ELSE Returns(extend(set_flag(b, "rom_path_added"),
                        <<"-L", PathStr(Str(rom_dir))>>))

with_machine_any_accel(b, smm_enabled, accel) ==
    IF b.machine_added THEN Returns(b)
    ELSE
      LET b1 == set_flag(b, "machine_added")
          smm == IF Truthy(smm_enabled) THEN "on" ELSE "off"
          machine_config ==
              ("q35,smm=" \o smm)
              \o (IF Truthy(accel) THEN ",accel=" \o Lower(accel.s) ELSE "")
          b2 == IF b.architecture = "Q35"
                THEN extend(b1, <<"-machine", machine_config>>)
                ELSE extend(b1, <<"-machine", "sbsa-ref">>)
      IN  IF Truthy(smm_enabled)
          THEN Returns(extend(b2,
                   <<"-global", "driver=cfi.pflash01,property=secure,value=on">>))
          ELSE Returns(b2)

with_machine(b, smm_enabled, accel) ==
    IF b.machine_added THEN Returns(b)
    ELSE
      LET b1 == set_flag(b, "machine_added")
          smm == IF Truthy(smm_enabled) THEN "on" ELSE "off"
          accel_lower == Lower(accel.s)
          machine_config ==
              ("q35,smm=" \o smm)
              \o (IF Truthy(accel) /\ accel_lower \in {"kvm", "tcg", "whpx"}
                  THEN ",accel=" \o accel_lower ELSE "")
          b2 == IF b.architecture = "Q35"
                THEN extend(b1, <<"-machine", machine_config>>)
                ELSE extend(b1, <<"-machine", "sbsa-ref">>)
      IN  IF Truthy(smm_enabled)
          THEN Returns(extend(b2,
                   <<"-global", "driver=cfi.pflash01,property=secure,value=on">>))
          ELSE Returns(b2)

CpuFeatures ==
    ",+rdrand,+umip,+smep,+pdpe1gb,+popcnt,+sse,+sse2,+sse3,+ssse3,+sse4.2,+sse4.1"

with_cpu(b, model, core_count) ==
    IF b.cpu_added THEN Returns(b)
    ELSE
      LET b1 == set_flag(b, "cpu_added")
          cpu_model == IF Truthy(model) THEN Str(model) ELSE "qemu64"
          b2 == IF b.architecture = "Q35"
                THEN extend(b1, <<"-cpu", cpu_model \o CpuFeatures>>)
                ELSE extend(b1, <<"-cpu", "max,sve=off,sme=off">>)
      IN  IF Truthy(core_count)
          THEN Returns(extend(b2, <<"-smp", Str(core_count)>>))
          ELSE Returns(b2)

\* The pflash drive token of one flash unit.
PflashDrive(unit, file, readonly) ==
    "if=pflash,format=raw,unit=" \o IntStr(unit) \o ",file=" \o Str(file)
    \o (IF readonly THEN ",readonly=on" ELSE "")

with_firmware_swapped(b, code_fd, vars_fd) ==
    IF b.firmware_added THEN Returns(b)
    ELSE IF ~Truthy(code_fd) THEN Returns(b)
    ELSE
      LET b1 == set_flag(b, "firmware_added")
      IN  IF b.architecture = "Q35"
          THEN Returns(extend(b1,
                   <<"-drive", PflashDrive(0, vars_fd, FALSE),
                     "-drive", PflashDrive(1, code_fd, TRUE)>>))
          ELSE Returns(extend(
                   IF Truthy(vars_fd)
                   THEN extend(b1, <<"-drive", PflashDrive(0, vars_fd, FALSE)>>)
                   ELSE b1,
                   <<"-drive", PflashDrive(1, code_fd, TRUE)>>))

with_firmware(b, code_fd, vars_fd) ==
    IF b.firmware_added THEN Returns(b)
    ELSE IF ~Truthy(code_fd) THEN Returns(b)
    ELSE
      LET b1 == set_flag(b, "firmware_added")
      IN  IF b.architecture = "Q35"
          THEN Returns(extend(b1,
                   <<"-drive", PflashDrive(0, code_fd, TRUE),
                     "-drive", PflashDrive(1, vars_fd, FALSE)>>))
          ELSE Returns(extend(
                   IF Truthy(vars_fd)
                   THEN extend(b1, <<"-drive", PflashDrive(0, vars_fd, FALSE)>>)
                   ELSE b1,
                   <<"-drive", PflashDrive(1, code_fd, TRUE)>>))

with_usb_controller(b) ==
    IF b.usb_controller_added THEN Returns(b)
    ELSE Returns(extend(set_flag(b, "usb_controller_added"),
                        <<"-device", "qemu-xhci,id=usb">>))

with_usb_mouse(b) ==
    IF b.usb_mouse_added THEN Returns(b)
    ELSE Returns(extend(set_flag(b, "usb_mouse_added"),
                        <<"-device", "usb-mouse,id=input0,bus=usb.0,port=1">>))

with_usb_keyboard(b) ==
    IF b.usb_keyboard_added THEN Returns(b)
    ELSE Returns(extend(set_flag(b, "usb_keyboard_added"),
                        <<"-device", "usb-kbd,id=input1,bus=usb.0,port=2">>))

\* The two tokens that attach one USB storage drive.
UsbStorageTokens(file, drive_format, drive_id) ==
    <<"-drive",
      "file=" \o file \o ",format=" \o Str(drive_format)
          \o ",media=disk,if=none,id=" \o Str(drive_id),
      "-device",
      "usb-storage,bus=usb.0,drive=" \o Str(drive_id)>>

with_usb_storage_same_index(b, drive_file, drive_id, drive_format) ==
    IF ~Truthy(drive_file) THEN Returns(b)
    ELSE
      LET id == IF ~Truthy(drive_id)
                THEN PyStr("usb_storage_" \o IntStr(b.usb_storage_index))
                ELSE drive_id
      IN  IF isfile(drive_file)
          THEN Returns(extend(b,
                   UsbStorageTokens(Str(drive_file), drive_format, id)))
          ELSE IF isdir(drive_file)
          THEN Returns(extend(b,
                   UsbStorageTokens("fat:rw:" \o Str(drive_file), drive_format, id)))
          ELSE Returns(b)

with_usb_storage(b, drive_file, drive_id, drive_format) ==
    IF ~Truthy(drive_file) THEN Returns(b)
    ELSE
      LET auto == ~Truthy(drive_id)
          id == IF auto
                THEN PyStr("usb_storage_" \o IntStr(b.usb_storage_index))
                ELSE drive_id
          b1 == IF auto
                THEN [b EXCEPT !.usb_storage_index = @ + 1]
                ELSE b
      IN  IF isfile(drive_file)
          THEN Returns(extend(b1,
                   UsbStorageTokens(Str(drive_file), drive_format, id)))
          ELSE IF isdir(drive_file)
          THEN Returns(extend(b1,
                   UsbStorageTokens("fat:rw:" \o Str(drive_file), drive_format, id)))
          ELSE Returns(b1)

with_virtual_drive(b, virtual_drive) ==
    IF ~Truthy(virtual_drive) THEN Returns(b)
    ELSE IF isfile(virtual_drive)
    THEN Returns(extend(b,
             <<"-drive", "file=" \o Str(virtual_drive) \o ",if=virtio">>))
    ELSE IF isdir(virtual_drive)
    THEN Returns(extend(b,
             <<"-drive",
               "file=fat:rw:" \o Str(virtual_drive) \o ",format=raw,media=disk">>))
    ELSE Returns(b)

with_memory_unguarded(b, size_mb) ==
    Returns(extend(set_flag(b, "memory_added"), <<"-m", Str(size_mb)>>))

with_memory(b, size_mb) ==
    IF b.memory_added THEN Returns(b)
    ELSE Returns(extend(set_flag(b, "memory_added"), <<"-m", Str(size_mb)>>))

\* The storage_format table of with_os_storage; "" stands for .get()'s None.
StorageFormat(file_extension) ==
    CASE file_extension = ".vhd" -> "raw"
      [] file_extension = ".qcow2" -> "qcow2"
      [] file_extension = ".iso" -> "iso"
      [] OTHER -> ""

with_os_storage_nvme_everywhere(b, path_to_os) ==
    IF ~Truthy(path_to_os) THEN Returns(b)
    ELSE
      LET file_extension ==
              RemoveChar(Lower(PathSuffix(Str(path_to_os))), "\"")
          storage_format == StorageFormat(file_extension)
          drive(id) ==
              "file=" \o Str(path_to_os) \o ",format=" \o storage_format
              \o ",if=none,id=" \o id
      IN  IF storage_format = ""
          THEN Raises(b, "Exception")
          ELSE IF storage_format = "iso"
          THEN Returns(extend(b, <<"-cdrom", Str(path_to_os)>>))
          ELSE Returns(extend(b,
                   <<"-drive", drive("os_nvme"),
                     "-device", "nvme,serial=nvme-1,drive=os_nvme">>))

with_os_storage_late_check(b, path_to_os) ==
    IF ~Truthy(path_to_os) THEN Returns(b)
    ELSE
      LET file_extension ==
              RemoveChar(Lower(PathSuffix(Str(path_to_os))), "\"")
          storage_format == StorageFormat(file_extension)
          drive(id) ==
              "file=" \o Str(path_to_os) \o ",format=" \o storage_format
              \o ",if=none,id=" \o id
      IN  IF storage_format = "iso"
          THEN Returns(extend(b, <<"-cdrom", Str(path_to_os)>>))
          ELSE IF storage_format = ""
          THEN Raises(extend(b, <<"-drive", drive("os_nvme")>>), "Exception")
          ELSE IF b.architecture = "Q35"
          THEN Returns(extend(b,
                   <<"-drive", drive("os_nvme"),
                     "-device", "nvme,serial=nvme-1,drive=os_nvme">>))
          ELSE Returns(extend(b,
                   <<"-drive", drive("os_disk"),
                     "-device", "ahci,id=ahci",
                     "-device", "ide-hd,drive=os_disk,bus=ahci.0">>))

with_os_storage(b, path_to_os) ==
    IF ~Truthy(path_to_os) THEN Returns(b)
    ELSE
      LET file_extension ==
              RemoveChar(Lower(PathSuffix(Str(path_to_os))), "\"")
          storage_format == StorageFormat(file_extension)
          drive(id) ==
              "file=" \o Str(path_to_os) \o ",format=" \o storage_format
              \o ",if=none,id=" \o id
      IN  IF storage_format = ""
          THEN Raises(b, "Exception")
          ELSE IF storage_format = "iso"
          THEN Returns(extend(b, <<"-cdrom", Str(path_to_os)>>))
          ELSE IF b.architecture = "Q35"
          THEN Returns(extend(b,
                   <<"-drive", drive("os_nvme"),
                     "-device", "nvme,serial=nvme-1,drive=os_nvme">>))
          ELSE Returns(extend(b,
                   <<"-drive", drive("os_disk"),
                     "-device", "ahci,id=ahci",
                     "-device", "ide-hd,drive=os_disk,bus=ahci.0">>))

\* netdev_config after the loop over forward_ports[i..]
RECURSIVE HostFwd(_, _)
HostFwd(ports, i) ==
    IF i > Len(ports) THEN ""
    ELSE ",hostfwd=tcp::" \o Str(ports[i]) \o "-:" \o Str(ports[i])
         \o HostFwd(ports, i + 1)

with_network_e1000_only(b, enabled, forward_ports, use_virtio) ==
    IF b.network_added THEN Returns(b)
    ELSE
      LET b1 == set_flag(b, "network_added")
      IN  IF ~Truthy(enabled)
          THEN Returns(extend(b1, <<"-net", "none">>))
          ELSE
            LET netdev_config ==
                    "user,id=net0"
                    \o (IF Truthy(forward_ports)
                        THEN HostFwd(forward_ports.xs, 1) ELSE "")
                b2 == extend(b1, <<"-netdev", netdev_config>>)
            IN  Returns(extend(b2, <<"-device", "e1000,netdev=net0">>))

with_network_always_on(b, enabled, forward_ports, use_virtio) ==
    IF b.network_added THEN Returns(b)
    ELSE
      LET b1 == set_flag(b, "network_added")
          b2 == extend(b1, <<"-netdev", "user,id=net0">>)
      IN  IF Truthy(use_virtio)
          THEN Returns(extend(b2, <<"-device", "virtio-net-pci,netdev=net0">>))
          ELSE Returns(extend(b2, <<"-device", "e1000,netdev=net0">>))

with_network(b, enabled, forward_ports, use_virtio) ==
    IF b.network_added THEN Returns(b)
    ELSE
      LET b1 == set_flag(b, "network_added")
      IN  IF ~Truthy(enabled)
          THEN Returns(extend(b1, <<"-net", "none">>))
          ELSE IF Truthy(forward_ports) /\ forward_ports.t # "list"
          THEN Raises(b1, "TypeError")   \* for port in <a bool or an int>
          ELSE
            LET netdev_config ==
                    "user,id=net0"
                    \o (IF Truthy(forward_ports)
                        THEN HostFwd(forward_ports.xs, 1) ELSE "")
                b2 == extend(b1, <<"-netdev", netdev_config>>)
            IN  IF Truthy(use_virtio)
                THEN Returns(extend(b2, <<"-device", "virtio-net-pci,netdev=net0">>))
                ELSE Returns(extend(b2, <<"-device", "e1000,netdev=net0">>))

\* The defaults table of with_smbios for an architecture.
SmbiosDefaults(architecture) ==
    [smbios0_vendor |-> "Patina",
     smbios0_version |-> IF architecture = "Q35"
                         THEN "patina-q35-patched" ELSE "patina-sbsa-patched",
     smbios0_date |-> NowDate,
     smbios1_manufacturer |-> "OpenDevicePartnership",
     smbios1_product |-> IF architecture = "Q35" THEN "QEMU Q35" ELSE "QEMU SBSA",
     smbios1_family |-> "QEMU",
     smbios1_version |-> "10.0.0",
     smbios1_serial |-> "42-42-42-42",
     smbios1_uuid |-> "99fb60e2-181c-413a-a3cf-0a5fea8d87b0",
     smbios3_manufacturer |-> "OpenDevicePartnership",
     smbios3_serial |-> IF architecture = "Q35" THEN "40-41-42-43" ELSE "42-42-42-42",
     smbios3_asset |-> IF architecture = "Q35" THEN "Q35" ELSE "SBSA",
     smbios3_sku |-> IF architecture = "Q35" THEN "Q35" ELSE "SBSA",
     smbios3_version |-> ""]

DictUpdate_keeping(d, u) ==
    [k \in DOMAIN d \cup DOMAIN u |-> IF k \in DOMAIN d THEN d[k] ELSE u[k]]

\* dict.update: d with the entries of u put over it
DictUpdate(d, u) ==
    [k \in DOMAIN d \cup DOMAIN u |-> IF k \in DOMAIN u THEN u[k] ELSE d[k]]

Quoted(s) == "\"" \o s \o "\""

\* The three -smbios records formatted from a values table.
SmbiosType0(values) ==
    "type=0,vendor=" \o Quoted(values["smbios0_vendor"])
    \o ",version=" \o Quoted(values["smbios0_version"])
    \o ",date=" \o Quoted(values["smbios0_date"]) \o ",uefi=on"

SmbiosType1(values) ==
    "type=1,manufacturer=" \o Quoted(values["smbios1_manufacturer"])
    \o ",product=" \o Quoted(values["smbios1_product"])
    \o ",family=" \o Quoted(values["smbios1_family"])
    \o ",version=" \o Quoted(values["smbios1_version"])
    \o ",serial=" \o Quoted(values["smbios1_serial"])
    \o ",uuid=" \o values["smbios1_uuid"]

SmbiosType3(values) ==
    "type=3,manufacturer=" \o Quoted(values["smbios3_manufacturer"])
    \o ",serial=" \o Quoted(values["smbios3_serial"])
    \o ",asset=" \o Quoted(values["smbios3_asset"])
    \o ",sku=" \o Quoted(values["smbios3_sku"])
    \o ",version=" \o Quoted(values["smbios3_version"])

with_smbios(b, smbios_values) ==
    IF b.smbios_added THEN Returns(b)
    ELSE
      LET defaults == SmbiosDefaults(b.architecture)
          values == IF Truthy(smbios_values)
                    THEN DictUpdate(defaults, smbios_values.d)
                    ELSE defaults
      IN  Returns(extend(set_flag(b, "smbios_added"),
              <<"-smbios", SmbiosType0(values),
                "-smbios", SmbiosType1(values),
                "-smbios", SmbiosType3(values)>>))

with_tpm(b, tpm_dev) ==
    IF b.tpm_added THEN Returns(b)
    ELSE IF tpm_dev = None THEN Returns(b)
    ELSE
      LET b1 == extend(set_flag(b, "tpm_added"),
                    <<"-chardev", "socket,id=chrtpm,path=" \o Str(tpm_dev),
                      "-tpmdev", "emulator,id=tpm0,chardev=chrtpm">>)
      IN  IF b.architecture = "Q35"
          THEN Returns(extend(b1, <<"-device", "tpm-tis,tpmdev=tpm0">>))
          ELSE Returns(b1)

with_display_nographic(b, enabled) ==
    IF b.display_added THEN Returns(b)
    ELSE
      LET b1 == set_flag(b, "display_added")
      IN  IF ~Truthy(enabled) THEN Returns(extend(b1, <<"-nographic">>))
          ELSE IF b.architecture = "Q35"
          THEN Returns(extend(b1, <<"-vga", "cirrus">>))
          ELSE Returns(b1)

with_display(b, enabled) ==
    IF b.display_added THEN Returns(b)
    ELSE
      LET b1 == set_flag(b, "display_added")
      IN  IF ~Truthy(enabled) THEN Returns(extend(b1, <<"-display", "none">>))
          ELSE IF b.architecture = "Q35"
          THEN Returns(extend(b1, <<"-vga", "cirrus">>))
          ELSE Returns(b1)

with_gdb_server_flagging_skip(b, port, ip) ==
    IF b.gdb_server_added THEN Returns(b)
    ELSE IF Truthy(port)
    THEN Returns(extend(set_flag(b, "gdb_server_added"),
             <<"-gdb", "tcp:" \o Str(ip) \o ":" \o Str(port)>>))
    ELSE Returns(set_flag(b, "gdb_server_added"))

with_gdb_server(b, port, ip) ==
    IF b.gdb_server_added THEN Returns(b)
    ELSE IF Truthy(port)
    THEN Returns(extend(set_flag(b, "gdb_server_added"),
             <<"-gdb", "tcp:" \o Str(ip) \o ":" \o Str(port)>>))
    ELSE Returns(b)

\* the -serial file: sinks of log_files[i..]
RECURSIVE SerialLogTokens(_, _)
SerialLogTokens(log_files, i) ==
    IF i > Len(log_files) THEN <<>>
    ELSE <<"-serial", "file:" \o Str(log_files[i])>>
         \o SerialLogTokens(log_files, i + 1)

with_serial_port(b, port, log_files, ip) ==
    IF b.serial_port_added THEN Returns(b)
    ELSE
      LET b1 == set_flag(b, "serial_port_added")
      IN  IF Truthy(port)
          THEN Returns(extend(b1,
                   <<"-serial",
                     "tcp:" \o Str(ip) \o ":" \o Str(port) \o ",server,nowait">>))
          ELSE Returns(extend(extend(b1, <<"-serial", "stdio">>),
                   IF Truthy(log_files)
                   THEN SerialLogTokens(log_files.xs, 1) ELSE <<>>))

with_monitor_port(b, port, ip) ==
    IF b.monitor_port_added THEN Returns(b)
    ELSE IF Truthy(port)
    THEN Returns(extend(set_flag(b, "monitor_port_added"),
             <<"-monitor",
               "tcp:" \o Str(ip) \o ":" \o Str(port) \o ",server,nowait">>))
    ELSE Returns(b)

with_shutdown_from_guest(b, shutdown) ==
    IF Truthy(shutdown) /\ b.architecture = "Q35"
    THEN Returns(extend(b, <<"-device", "isa-debug-exit,iobase=0xf4,iosize=0x04">>))
    ELSE Returns(b)

\* with_custom(*args): args is the tuple of the tokens passed
with_custom(b, args) ==
    IF args # <<>> THEN Returns(extend(b, args)) ELSE Returns(b)

\* The list object self._args; build() hands out the object, not a copy.
ArgsObject == [ref |-> "self._args"]

build_consuming(b) ==
    [self |-> [b EXCEPT !.args = <<>>], exc |-> "",
     ret |-> <<b.executable, ArgsObject>>]

\* build(): (self._executable, self._args)
build(b) ==
    [self |-> b, exc |-> "", ret |-> <<b.executable, ArgsObject>>]

(***************************************************************************)
(* The arguments the builder's operations are called with.                 *)
(***************************************************************************)
True == PyBool(TRUE)
False == PyBool(FALSE)
DefaultIp == PyStr("127.0.0.1")
Raw == PyStr("raw")

RomPathArgs == {<<None>>, <<PyStr("")>>, <<PyStr("/qemu/share")>>, <<PyStr("/ext//share/")>>}
MachineArgs ==
    {<<True, None>>, <<False, PyStr("KVM")>>, <<True, PyStr("xen")>>,
     <<False, PyStr("")>>, <<True, PyStr("whpx")>>}
CpuArgs == {<<None, None>>, <<PyStr("host"), PyInt(4)>>, <<None, PyInt(2)>>}
FirmwareArgs ==
    {<<None, PyStr("/fv/VARS.fd")>>, <<PyStr("/fv/CODE.fd"), PyStr("/fv/VARS.fd")>>,
     <<PyStr("/fv/CODE.fd"), None>>}
UsbStorageArgs ==
    {<<None, None>>, <<PyStr("/img/dfci.img"), None>>, <<PyStr("/shared"), None>>,
     <<PyStr("/missing"), None>>, <<PyStr("/img/dfci.img"), PyStr("dfci_disk")>>}
VirtualDriveArgs == {<<None>>, <<PyStr("/img/data.qcow2")>>, <<PyStr("/shared")>>, <<PyStr("/missing")>>}
MemoryArgs == {<<PyInt(2048)>>, <<PyInt(8192)>>}
OsStorageArgs ==
    {<<None>>, <<PyStr("/img/win.VHD")>>, <<PyStr("/img/data.qcow2")>>,
     <<PyStr("/img/cd.iso")>>, <<PyStr("/img/disk.img")>>, <<PyStr("/img/noext")>>,
     <<PyStr("\"/img/win.vhd\"")>>}
NetworkArgs ==
    {<<False, None, False>>, <<True, None, False>>,
     <<False, PyList(<<PyInt(8270)>>), True>>,
     <<True, PyList(<<PyInt(8270), PyInt(8271)>>), True>>}
SmbiosArgs ==
    {<<None>>, <<PyDict([smbios1_product |-> "X"])>>,
     <<PyDict([smbios0_vendor |-> "Y", smbios3_version |-> "Vol+"])>>}
TpmArgs == {<<None>>, <<PyStr("")>>, <<PyStr("/tmp/tpm.sock")>>}
DisplayArgs == {<<True>>, <<False>>}
GdbServerArgs == {<<None>>, <<PyInt(1234)>>, <<PyInt(4321)>>}
SerialPortArgs ==
    {<<None, None>>, <<PyInt(50001), None>>,
     <<None, PyList(<<PyStr("secure.log"), PyStr("secure_mm.log")>>)>>}
MonitorPortArgs == {<<PyInt(0)>>, <<PyInt(5555)>>, <<PyInt(5556)>>}
ShutdownArgs == {<<True>>, <<False>>}
CustomArgs == {<<>>, <<"-snapshot">>, <<"-rtc", "base=utc">>}

Executable(architecture) ==
    IF architecture = "Q35" THEN "qemu-system-x86_64" ELSE "qemu-system-aarch64"

\* The operations guarded by an idempotency flag, and the flag of each.
FlagOf ==
    [with_rom_path |-> "rom_path_added",
     with_machine |-> "machine_added",
     with_cpu |-> "cpu_added",
     with_firmware |-> "firmware_added",
     with_usb_controller |-> "usb_controller_added",
     with_usb_mouse |-> "usb_mouse_added",
     with_usb_keyboard |-> "usb_keyboard_added",
     with_memory |-> "memory_added",
     with_network |-> "network_added",
     with_smbios |-> "smbios_added",
     with_tpm |-> "tpm_added",
     with_display |-> "display_added",
     with_gdb_server |-> "gdb_server_added",
     with_serial_port |-> "serial_port_added",
     with_monitor_port |-> "monitor_port_added"]

FlaggedOps == DOMAIN FlagOf

\* The operation named op applied to builder b with the argument tuple a.
Apply(b, op, a) ==
    CASE op = "with_rom_path" -> with_rom_path(b, a[1])
      [] op = "with_machine" -> with_machine(b, a[1], a[2])
      [] op = "with_cpu" -> with_cpu(b, a[1], a[2])
      [] op = "with_firmware" -> with_firmware(b, a[1], a[2])
      [] op = "with_usb_controller" -> with_usb_controller(b)
      [] op = "with_usb_mouse" -> with_usb_mouse(b)
      [] op = "with_usb_keyboard" -> with_usb_keyboard(b)
      [] op = "with_usb_storage" -> with_usb_storage(b, a[1], a[2], Raw)
      [] op = "with_virtual_drive" -> with_virtual_drive(b, a[1])
      [] op = "with_memory" -> with_memory(b, a[1])
      [] op = "with_os_storage" -> with_os_storage(b, a[1])
      [] op = "with_network" -> with_network(b, a[1], a[2], a[3])
      [] op = "with_smbios" -> with_smbios(b, a[1])
      [] op = "with_tpm" -> with_tpm(b, a[1])
      [] op = "with_display" -> with_display(b, a[1])
      [] op = "with_gdb_server" -> with_gdb_server(b, a[1], DefaultIp)
      [] op = "with_serial_port" -> with_serial_port(b, a[1], a[2], DefaultIp)
      [] op = "with_monitor_port" -> with_monitor_port(b, a[1], DefaultIp)
      [] op = "with_shutdown_from_guest" -> with_shutdown_from_guest(b, a[1])
      [] op = "with_custom" -> with_custom(b, a)
      [] op = "build" -> build(b)

(***************************************************************************)
(* The builder used as a library: any operation, in any order.             *)
(***************************************************************************)
\* The Runner is not running in this specification.
RunIdle == [pc |-> "idle"]

\* One call on the builder, recorded in hist with what it yielded.
Invoke(op, a) ==
    LET r == Apply(builder, op, a)
    IN  /\ builder' = r.self
        /\ hist' = Append(hist,
                      [op |-> op, args |-> a, before |-> builder,
                       after |-> r.self, exc |-> r.exc, ret |-> r.ret])

\* A caller may make another call on the builder.
CanCall == run = RunIdle /\ Len(hist) < MaxCalls

CallRomPath ==
    \E a \in RomPathArgs :
        /\ CanCall
        /\ Invoke("with_rom_path", a)
        /\ UNCHANGED run

CallMachine ==
    \E a \in MachineArgs :
        /\ CanCall
        /\ Invoke("with_machine", a)
        /\ UNCHANGED run

CallCpu ==
    \E a \in CpuArgs :
        /\ CanCall
        /\ Invoke("with_cpu", a)
        /\ UNCHANGED run

CallFirmware ==
    \E a \in FirmwareArgs :
        /\ CanCall
        /\ Invoke("with_firmware", a)
        /\ UNCHANGED run

CallUsbController ==
    /\ CanCall
    /\ Invoke("with_usb_controller", <<>>)
    /\ UNCHANGED run

CallUsbMouse ==
    /\ CanCall
    /\ Invoke("with_usb_mouse", <<>>)
    /\ UNCHANGED run

CallUsbKeyboard ==
    /\ CanCall
    /\ Invoke("with_usb_keyboard", <<>>)
    /\ UNCHANGED run

CallUsbStorage ==
    \E a \in UsbStorageArgs :
        /\ CanCall
        /\ Invoke("with_usb_storage", a)
        /\ UNCHANGED run

CallVirtualDrive ==
    \E a \in VirtualDriveArgs :
        /\ CanCall
        /\ Invoke("with_virtual_drive", a)
        /\ UNCHANGED run

CallMemory ==
    \E a \in MemoryArgs :
        /\ CanCall
        /\ Invoke("with_memory", a)
        /\ UNCHANGED run

CallOsStorage ==
    \E a \in OsStorageArgs :
        /\ CanCall
        /\ Invoke("with_os_storage", a)
        /\ UNCHANGED run

CallNetwork ==
    \E a \in NetworkArgs :
        /\ CanCall
        /\ Invoke("with_network", a)
        /\ UNCHANGED run

CallSmbios ==
    \E a \in SmbiosArgs :
        /\ CanCall
        /\ Invoke("with_smbios", a)
        /\ UNCHANGED run

CallTpm ==
    \E a \in TpmArgs :
        /\ CanCall
        /\ Invoke("with_tpm", a)
        /\ UNCHANGED run

CallDisplay ==
    \E a \in DisplayArgs :
        /\ CanCall
        /\ Invoke("with_display", a)
        /\ UNCHANGED run

CallGdbServer ==
    \E a \in GdbServerArgs :
        /\ CanCall
        /\ Invoke("with_gdb_server", a)
        /\ UNCHANGED run

CallSerialPort ==
    \E a \in SerialPortArgs :
        /\ CanCall
        /\ Invoke("with_serial_port", a)
        /\ UNCHANGED run

CallMonitorPort ==
    \E a \in MonitorPortArgs :
        /\ CanCall
        /\ Invoke("with_monitor_port", a)
        /\ UNCHANGED run

CallShutdownFromGuest ==
    \E a \in ShutdownArgs :
        /\ CanCall
        /\ Invoke("with_shutdown_from_guest", a)
        /\ UNCHANGED run

CallCustom ==
    \E a \in CustomArgs :
        /\ CanCall
        /\ Invoke("with_custom", a)
        /\ UNCHANGED run

CallBuild ==
    /\ CanCall
    /\ Invoke("build", <<>>)
    /\ UNCHANGED run

Init ==
    /\ \E arch \in QemuArchitecture :
           builder = QemuCommandBuilder(Executable(arch), arch)
    /\ hist = <<>>
    /\ run = RunIdle

Next ==
    \/ CallRomPath
    \/ CallMachine
    \/ CallCpu
    \/ CallFirmware
    \/ CallUsbController
    \/ CallUsbMouse
    \/ CallUsbKeyboard
    \/ CallUsbStorage
    \/ CallVirtualDrive
    \/ CallMemory
    \/ CallOsStorage
    \/ CallNetwork
    \/ CallSmbios
    \/ CallTpm
    \/ CallDisplay
    \/ CallGdbServer
    \/ CallSerialPort
    \/ CallMonitorPort
    \/ CallShutdownFromGuest
    \/ CallCustom
    \/ CallBuild

Spec == Init /\ [][Next]_vars

(***************************************************************************)
(* Reading the history of calls.                                           *)
(***************************************************************************)
Calls == 1..Len(hist)

\* Calls i and i + 1 are two calls in a row of the same operation.
Repeated(i) == i \in Calls /\ i + 1 \in Calls /\ hist[i + 1].op = hist[i].op

IsPrefix(s, t) == Len(s) <= Len(t) /\ SubSeq(t, 1, Len(s)) = s

\* The tokens call i left behind the ones it found.
Appended(i) ==
    SubSeq(hist[i].after.args, Len(hist[i].before.args) + 1, Len(hist[i].after.args))

\* Call i passes an empty argument that its operation skips without a trace.
SkipsEmpty(i) ==
    LET a == hist[i].args
    IN  CASE hist[i].op \in {"with_rom_path", "with_firmware",
                             "with_gdb_server", "with_monitor_port"} -> ~Truthy(a[1])
          [] hist[i].op = "with_tpm" -> a[1] = None
          [] OTHER -> FALSE

\* Call i is the call that configures its category: it finds the flag unset
\* and sets it.
Configures(i) ==
    /\ hist[i].op \in FlaggedOps
    /\ ~hist[i].before[FlagOf[hist[i].op]]
    /\ hist[i].after[FlagOf[hist[i].op]]

(***************************************************************************)
(* C1.  As stated: for every flagged operation and all arguments a1, a2    *)
(* (empty ones included), op(a1) then op(a2) leaves the same tokens as     *)
(* op(a1) alone.                                                           *)
(***************************************************************************)
C1_SecondCallKeepsTokens ==
    \A i \in Calls :
        Repeated(i) /\ hist[i].op \in FlaggedOps
            => hist[i + 1].after.args = hist[i].after.args

\* C1, amended: for every flagged operation and all arguments a1, a2, op(a1)
\* then op(a2) leaves the same tokens as op(a1) alone, provided a1 is not an
\* empty argument that the operation skips (with_rom_path, with_firmware,
\* with_tpm, with_gdb_server, with_monitor_port skip one and set no flag).
C1_SecondCallKeepsTokensUnlessSkipped ==
    \A i \in Calls :
        Repeated(i) /\ hist[i].op \in FlaggedOps /\ ~SkipsEmpty(i)
            => hist[i + 1].after.args = hist[i].after.args

\* A flagged operation configured its category and was called again with
\* other arguments, which on their own would have been applied.
C1_Witness ==
    \E i \in Calls :
        /\ Repeated(i)
        /\ Configures(i)
        /\ hist[i + 1].args # hist[i].args
        /\ ~SkipsEmpty(i + 1)
        /\ Apply(hist[i].before, hist[i].op, hist[i + 1].args).self.args
               # hist[i].after.args

(***************************************************************************)
(* C2.  Every operation keeps the tokens it finds as a prefix of the       *)
(* tokens it leaves: nothing appended earlier is removed, replaced or      *)
(* reordered.                                                              *)
(***************************************************************************)
C2_TokensAppendOnly ==
    \A i \in Calls : IsPrefix(hist[i].before.args, hist[i].after.args)

\* An operation appended tokens behind tokens of an earlier operation.
C2_Witness ==
    \E i \in Calls :
        /\ i > 1
        /\ Appended(i - 1) # <<>>
        /\ Appended(i) # <<>>

(***************************************************************************)
(* C3.  No operation resets an idempotency flag that is true, and a call   *)
(* of a flagged operation whose flag is already true changes nothing of    *)
(* the builder: tokens, flags and the USB-storage counter.                 *)
(***************************************************************************)
C3_FlagsStickAndSuppress ==
    \A i \in Calls :
        /\ \A f \in Flags : hist[i].before[f] => hist[i].after[f]
        /\ hist[i].op \in FlaggedOps /\ hist[i].before[FlagOf[hist[i].op]]
               => hist[i].after = hist[i].before

\* A flagged operation was called with its flag set, with arguments that
\* would have changed a fresh category.
C3_Witness ==
    \E i \in Calls :
        /\ hist[i].op \in FlaggedOps
        /\ hist[i].before[FlagOf[hist[i].op]]
        /\ hist[i].after = hist[i].before
        /\ ~SkipsEmpty(i)
        /\ hist[i].args # <<>>

(***************************************************************************)
(* C4.  The with_firmware call that configures the firmware appends the    *)
(* flash drives in the architecture's layout.  Q35: unit 0 is the code     *)
(* image with readonly=on, then unit 1 is the vars image without readonly. *)
(* SBSA: unit 0 is the vars image without readonly (left out when vars is  *)
(* absent), then unit 1 is the code image with readonly=on.  No token      *)
(* holds the code image writable or the vars image read-only.              *)
(***************************************************************************)
IsPflash(tok, unit, file) ==
    /\ StartsWith(tok, "if=pflash,")
    /\ Contains(tok, ",unit=" \o IntStr(unit) \o ",")
    /\ Contains(tok, ",file=" \o Str(file))

ReadOnly(tok) == Contains(tok, "readonly=on")

\* C4: the first effective with_firmware call appends the flash drives in the
\* layout of the architecture; the code image is read-only, the vars image
\* is not.
C4_FirmwareLayout ==
    \A i \in Calls :
        hist[i].op = "with_firmware" /\ Configures(i) =>
            LET code == hist[i].args[1]
                vars_ == hist[i].args[2]
                app == Appended(i)
                unit0 == IF hist[i].before.architecture = "Q35" THEN code ELSE vars_
                unit1 == IF hist[i].before.architecture = "Q35" THEN vars_ ELSE code
                one == hist[i].before.architecture = "SBSA" /\ ~Truthy(vars_)
            IN  /\ Len(app) = IF one THEN 2 ELSE 4
                /\ \A k \in 1..Len(app) : k % 2 = 1 => app[k] = "-drive"
                /\ ~one => /\ IsPflash(app[2], 0, unit0)
                           /\ ReadOnly(app[2]) <=> unit0 = code
                /\ IsPflash(app[Len(app)], 1, unit1)
                /\ ReadOnly(app[Len(app)]) <=> unit1 = code
                /\ \A k \in 1..Len(app) :
                       /\ Contains(app[k], "file=" \o Str(code)) => ReadOnly(app[k])
                       /\ Contains(app[k], "file=" \o Str(vars_)) => ~ReadOnly(app[k])

\* with_firmware configured the firmware of an SBSA builder from a code and
\* a vars image.
C4_Witness ==
    \E i \in Calls :
        /\ hist[i].op = "with_firmware"
        /\ Configures(i)
        /\ hist[i].before.architecture = "SBSA"
        /\ Truthy(hist[i].args[2])
        /\ Len(Appended(i)) = 4

(***************************************************************************)
(* C5.  As stated: with_os_storage with a non-empty path whose lower-cased *)
(* extension is none of .vhd, .qcow2, .iso raises and leaves the builder   *)
(* as it was.                                                              *)
(***************************************************************************)
OsStorageCall(i) == hist[i].op = "with_os_storage" /\ Truthy(hist[i].args[1])

KnownExtensions == {".vhd", ".qcow2", ".iso"}

\* C5, as stated: a non-empty path whose lower-cased extension is unknown
\* makes with_os_storage raise and leave the builder as it was.
C5_UnknownLowerCasedExtensionRaises ==
    \A i \in Calls :
        /\ OsStorageCall(i)
        /\ Lower(PathSuffix(Str(hist[i].args[1]))) \notin KnownExtensions
        => hist[i].exc # "" /\ hist[i].after = hist[i].before

\* C5, amended: with_os_storage with a non-empty path whose extension,
\* lower-cased and with its double-quote characters removed, is none of
\* .vhd, .qcow2, .iso raises and leaves the builder as it was.
Extension(path) == RemoveChar(Lower(PathSuffix(path)), "\"")

UnknownOsStorage(i) ==
    /\ OsStorageCall(i)
    /\ Extension(Str(hist[i].args[1])) \notin KnownExtensions

\* C5, amended: a non-empty path whose extension, lower-cased and with its
\* double-quote characters removed, is unknown makes with_os_storage raise
\* and leave the builder as it was.
C5_UnknownExtensionRaises ==
    \A i \in Calls :
        UnknownOsStorage(i) => hist[i].exc # "" /\ hist[i].after = hist[i].before

\* with_os_storage met an unknown extension on a builder that an earlier
\* call had changed.
C5_Witness ==
    \E i \in Calls :
        /\ UnknownOsStorage(i)
        /\ i > 1
        /\ hist[i - 1].after # hist[i - 1].before

(***************************************************************************)
(* C7.  The with_smbios call that configures SMBIOS appends three records, *)
(* type 0, type 1, type 3 in that order, in which every key the overrides  *)
(* name has the caller's value and every other key the architecture's      *)
(* default; a later with_smbios call changes nothing.                      *)
(***************************************************************************)
\* Where each key goes: the record's place among the appended tokens, the
\* field's name, and whether the value is quoted.
SmbiosField ==
    [smbios0_vendor |-> <<2, "vendor", TRUE>>,
     smbios0_version |-> <<2, "version", TRUE>>,
     smbios0_date |-> <<2, "date", TRUE>>,
     smbios1_manufacturer |-> <<4, "manufacturer", TRUE>>,
     smbios1_product |-> <<4, "product", TRUE>>,
     smbios1_family |-> <<4, "family", TRUE>>,
     smbios1_version |-> <<4, "version", TRUE>>,
     smbios1_serial |-> <<4, "serial", TRUE>>,
     smbios1_uuid |-> <<4, "uuid", FALSE>>,
     smbios3_manufacturer |-> <<6, "manufacturer", TRUE>>,
     smbios3_serial |-> <<6, "serial", TRUE>>,
     smbios3_asset |-> <<6, "asset", TRUE>>,
     smbios3_sku |-> <<6, "sku", TRUE>>,
     smbios3_version |-> <<6, "version", TRUE>>]

\* Record rec gives field name the value v.
HasField(rec, name, v, quoted) ==
    LET text == "," \o name \o "=" \o (IF quoted THEN Quoted(v) ELSE v)
    IN  Contains(rec \o ",", text \o ",")

\* C7: the first with_smbios call emits the records of type 0, 1 and 3 with
\* the caller's value for each overridden key and the default for the others;
\* a second call changes nothing.
C7_SmbiosOverrides ==
    \A i \in Calls :
        hist[i].op = "with_smbios" =>
            IF hist[i].before.smbios_added
            THEN hist[i].after = hist[i].before
            ELSE
              LET ov == hist[i].args[1]
                  app == Appended(i)
                  want(k) ==
                      IF Truthy(ov) /\ k \in DOMAIN ov.d
                      THEN ov.d[k]
                      ELSE SmbiosDefaults(hist[i].before.architecture)[k]
              IN  /\ Len(app) = 6
                  /\ app[1] = "-smbios" /\ StartsWith(app[2], "type=0,")
                  /\ app[3] = "-smbios" /\ StartsWith(app[4], "type=1,")
                  /\ app[5] = "-smbios" /\ StartsWith(app[6], "type=3,")
                  /\ \A k \in DOMAIN SmbiosField :
                         HasField(app[SmbiosField[k][1]], SmbiosField[k][2],
                                  want(k), SmbiosField[k][3])

\* with_smbios configured SMBIOS from overrides naming some keys, and was
\* then called with other overrides.
C7_Witness ==
    \E i \in Calls :
        /\ Repeated(i)
        /\ hist[i].op = "with_smbios"
        /\ Configures(i)
        /\ Truthy(hist[i].args[1])
        /\ Truthy(hist[i + 1].args[1])
        /\ hist[i + 1].args # hist[i].args

(***************************************************************************)
(* C8.  build() changes nothing of the builder, and two build() calls in a *)
(* row return equal pairs: the same executable and the same tokens.        *)
(***************************************************************************)
\* The token sequence seen through a returned pair while the builder is b.
PairTokens(pair, b) == IF pair[2] = ArgsObject THEN b.args ELSE pair[2]

\* C8: build() changes no builder state and two build() calls in a row
\* return equal pairs.
C8_BuildTwiceSamePair ==
    \A i \in Calls :
        hist[i].op = "build" =>
            /\ hist[i].after = hist[i].before
            /\ hist[i].ret[1] = hist[i].before.executable
            /\ PairTokens(hist[i].ret, hist[i].after) = hist[i].before.args
            /\ Repeated(i) =>
                   /\ hist[i + 1].ret[1] = hist[i].ret[1]
                   /\ PairTokens(hist[i + 1].ret, hist[i + 1].after)
                          = PairTokens(hist[i].ret, hist[i].after)

\* build() was called twice in a row on a builder that holds tokens.
C8_Witness ==
    \E i \in Calls :
        /\ Repeated(i)
        /\ hist[i].op = "build"
        /\ hist[i].before.args # <<>>

(***************************************************************************)
(* C9.  The pair build() returned is immutable: operations on the builder  *)
(* after build() returned do not change the pair's token sequence.         *)
(***************************************************************************)
C9_ReturnedPairImmutable ==
    \A i \in Calls :
        hist[i].op = "build" =>
            PairTokens(hist[i].ret, builder) = PairTokens(hist[i].ret, hist[i].after)

(***************************************************************************)
(* The builder with other operations between its with_usb_storage calls:   *)
(* every operation, each other one with one argument tuple, to a greater   *)
(* depth than Spec.                                                        *)
(***************************************************************************)
OtherArgs ==
    [with_rom_path |-> <<PyStr("/qemu/share")>>,
     with_machine |-> <<True, None>>,
     with_cpu |-> <<None, PyInt(4)>>,
     with_firmware |-> <<PyStr("/fv/CODE.fd"), PyStr("/fv/VARS.fd")>>,
     with_usb_controller |-> <<>>,
     with_usb_mouse |-> <<>>,
     with_usb_keyboard |-> <<>>,
     with_virtual_drive |-> <<PyStr("/shared")>>,
     with_memory |-> <<PyInt(2048)>>,
     with_os_storage |-> <<PyStr("/img/win.VHD")>>,
     with_network |-> <<False, None, False>>,
     with_smbios |-> <<None>>,
     with_tpm |-> <<PyStr("/tmp/tpm.sock")>>,
     with_display |-> <<True>>,
     with_gdb_server |-> <<PyInt(1234)>>,
     with_serial_port |-> <<PyInt(50001), None>>,
     with_monitor_port |-> <<PyInt(5555)>>,
     with_shutdown_from_guest |-> <<True>>,
     with_custom |-> <<"-snapshot">>,
     build |-> <<>>]

CanCallUsb == run = RunIdle /\ Len(hist) < MaxUsbCalls

UsbStorageCall ==
    \E a \in UsbStorageArgs :
        /\ CanCallUsb
        /\ Invoke("with_usb_storage", a)
        /\ UNCHANGED run

OtherCall ==
    \E op \in DOMAIN OtherArgs :
        /\ CanCallUsb
        /\ Invoke(op, OtherArgs[op])
        /\ UNCHANGED run

UsbNext == UsbStorageCall \/ OtherCall

UsbSpec == Init /\ [][UsbNext]_vars

(***************************************************************************)
(* C6.  The with_usb_storage calls that pass a non-empty file and no id    *)
(* attach their drive under the id usb_storage_N, and N grows strictly     *)
(* from one such call to the next, whatever calls lie between them.        *)
(***************************************************************************)
\* Call i has with_usb_storage make up the id, and attaches a drive.
AutoAttach(i) ==
    /\ hist[i].op = "with_usb_storage"
    /\ Truthy(hist[i].args[1])
    /\ ~Truthy(hist[i].args[2])
    /\ Appended(i) # <<>>

\* Call i attached its drive under the id usb_storage_n.
AttachedAs(i, n) ==
    LET id == "usb_storage_" \o IntStr(n)
        app == Appended(i)
    IN  /\ Len(app) = 4
        /\ app[1] = "-drive" /\ EndsWith(app[2], ",id=" \o id)
        /\ app[3] = "-device" /\ app[4] = "usb-storage,bus=usb.0,drive=" \o id

\* C6: the numbers N of the ids usb_storage_N that with_usb_storage makes up
\* strictly increase from one such call to the next.
C6_AutoIdsStrictlyIncrease ==
    /\ \A i \in Calls : AutoAttach(i) => \E n \in 0..Len(hist) : AttachedAs(i, n)
    /\ \A i, j \in Calls :
           AutoAttach(i) /\ AutoAttach(j) /\ i < j =>
               \A n, m \in 0..Len(hist) :
                   AttachedAs(i, n) /\ AttachedAs(j, m) => n < m

\* Two calls made up an id, with a call that passes its own id or another
\* operation that appends tokens between them.
C6_Witness ==
    \E i, k, j \in Calls :
        /\ i < k /\ k < j
        /\ AutoAttach(i) /\ AutoAttach(j)
        /\ ~AutoAttach(k) /\ Appended(k) # <<>>

(***************************************************************************)
(* The QemuRunner plugins: helpers.                                        *)
(***************************************************************************)
\* Exit codes do not fit TLC's integers: <<hi, lo>> is hi * 65536 + lo.
Code(hi, lo) == <<hi, lo>>
ACCESS_VIOLATION == Code(49152, 5)  \* 0xC0000005
SEGFAULT == Code(0, 139)            \* 0x8B
EXIT_33 == Code(0, 33)
EXIT_0 == Code(0, 0)

\* Characters in code-point order, for comparing strings.
AsciiChars == " -./0123456789:ABCDEFGHIJKLMNOPQRSTUVWXYZ_abcdefghijklmnopqrstuvwxyz"

Ord(c) == CHOOSE i \in 1..Len(AsciiChars) : Char(AsciiChars, i) = c

\* a >= b on Python strings: by code point, a proper prefix being less.
RECURSIVE StrGe(_, _)
StrGe(a, b) ==
    IF b = "" THEN TRUE
    ELSE IF a = "" THEN FALSE
    ELSE IF Char(a, 1) = Char(b, 1) THEN StrGe(Tail(a), Tail(b))
    ELSE Ord(Char(a, 1)) > Ord(Char(b, 1))

IsSpace(c) == c = " "
IsDigitOrDot(c) == c # "" /\ Contains("0123456789.", c)

\* str.strip()
RECURSIVE Strip(_)
Strip(s) ==
    IF s = "" THEN ""
    ELSE IF IsSpace(Char(s, 1)) THEN Strip(Tail(s))
    ELSE IF IsSpace(Char(s, Len(s))) THEN Strip(SubSeq(s, 1, Len(s) - 1))
    ELSE s

\* str.split(sep) for a one-character sep
RECURSIVE Split(_, _)
Split(s, sep) ==
    LET hits == {i \in 1..Len(s) : Char(s, i) = sep}
    IN  IF hits = {} THEN <<s>>
        ELSE LET i == CHOOSE k \in hits : \A j \in hits : k <= j
             IN  <<SubSeq(s, 1, i - 1)>> \o Split(SubSeq(s, i + 1, Len(s)), sep)

\* str.join(sep, parts) on a sequence of strings
RECURSIVE Join(_, _)
Join(parts, sep) ==
    IF parts = <<>> THEN ""
    ELSE IF Len(parts) = 1 THEN parts[1]
    ELSE parts[1] \o sep \o Join(Tail(parts), sep)

\* The first index from i on at which s holds no space.
RECURSIVE SkipSpaces(_, _)
SkipSpaces(s, i) ==
    IF i <= Len(s) /\ IsSpace(Char(s, i)) THEN SkipSpaces(s, i + 1) ELSE i

\* The last index of the run of digits and dots of s that starts at i.
RECURSIVE RunEnd(_, _)
RunEnd(s, i) ==
    IF i + 1 <= Len(s) /\ IsDigitOrDot(Char(s, i + 1)) THEN RunEnd(s, i + 1) ELSE i

\* re.search(r"version\s*([\d.]+)", s): group 1 of the leftmost match, as a
\* one-element sequence, or <<>> when nothing matches.
VersionSearch(s) ==
    LET starts == {i \in 1..Len(s) :
                      /\ i + 6 <= Len(s)
                      /\ SubSeq(s, i, i + 6) = "version"
                      /\ SkipSpaces(s, i + 7) <= Len(s)
                      /\ IsDigitOrDot(Char(s, SkipSpaces(s, i + 7)))}
    IN  IF starts = {} THEN <<>>
        ELSE LET i == CHOOSE k \in starts : \A j \in starts : k <= j
                 from == SkipSpaces(s, i + 7)
             IN  <<SubSeq(s, from, RunEnd(s, from))>>

\* A sequence of strings as a Python list of str.
StrList(parts) == PyList([i \in 1..Len(parts) |-> PyStr(parts[i])])

\* QueryQemuVersion(exec): probe is the outcome of RunCmd(exec, "--version"),
\* its return code rc and what it wrote to outstream.
QueryQemuVersion(exec, probe) ==
    IF exec = None THEN [exc |-> "", ret |-> None]
    ELSE IF probe.rc # 0 THEN [exc |-> "", ret |-> None]
    ELSE LET m == VersionSearch(probe.out)
         IN  IF m = <<>>
             THEN [exc |-> "AttributeError", ret |-> None]  \* None.group(1)
             ELSE [exc |-> "", ret |-> StrList(Split(m[1], "."))]

\* env.GetValue(key) / env.GetBuildValue(key): None when the key is unset.
GetValue(env, key) == IF key \in DOMAIN env THEN env[key] ELSE None

TrueWords == {"true", "yes", "y", "1"}

\* GetBool and GetBuildBool
GetBool(env, key, default) ==
    LET val == GetValue(env, key)
    IN  IF val = None THEN default
        ELSE PyBool(Lower(Strip(val.s)) \in TrueWords)

\* GetStr and GetBuildStr: env.GetValue(key) or default
GetStr(env, key, default) ==
    LET val == GetValue(env, key) IN IF Truthy(val) THEN val ELSE default

\* os.path.join(a, b) on a POSIX host
PathJoin(a, b) == IF EndsWith(a, "/") \/ a = "" THEN a \o b ELSE a \o "/" \o b

(***************************************************************************)
(* The QemuRunner plugins: Runner(env), one for Q35 and one for SBSA.      *)
(***************************************************************************)
\* not v
PyNot(v) == PyBool(~Truthy(v))

\* The name of the emulator binary each plugin falls back to.
DefaultExecutable(plugin) == PyStr(Executable(plugin))

\* The settings the Runner reads from env and what it derives from them
\* before it probes the emulator. exc is the exception this raises, if any:
\* os.path.join(None, ...) is a TypeError.
Settings(plugin, env) ==
    LET alt_boot_enable == GetBool(env, "ALT_BOOT_ENABLE", False)
        boot_to_front_page == GetBool(env, "BOOT_TO_FRONT_PAGE", False)
        dfci_var_store == GetStr(env, "DFCI_VAR_STORE", None)
        enable_network == GetBool(env, "ENABLE_NETWORK", False)
        output_path == GetStr(env, "BUILD_OUTPUT_BASE", None)
        path_to_os == GetStr(env, "PATH_TO_OS", None)
        qemu_path == GetStr(env, "QEMU_PATH", None)
        qemu_ext_dep_dir == GetStr(env, "QEMU_DIR", None)
        fv == PathJoin(output_path.s, "FV")
        orig_var_store ==
            PyStr(PathJoin(fv, IF plugin = "Q35" THEN "QEMUQ35_VARS.fd"
                                                 ELSE "SECURE_FLASH0.fd"))
    IN  IF output_path = None THEN [exc |-> "TypeError"]
        ELSE
        [exc |-> "",
         core_count |-> GetStr(env, "QEMU_CORE_NUM", None),
         cpu_model |-> GetStr(env, "CPU_MODEL", None),
         dfci_files |-> GetStr(env, "DFCI_FILES", None),
         gdb_server_port |-> GetStr(env, "GDB_SERVER", None),
         headless |-> GetBool(env, "QEMU_HEADLESS", False),
         install_files |-> GetStr(env, "INSTALL_FILES", None),
         monitor_port |-> GetStr(env, "MONITOR_PORT", None),
         path_to_os |-> path_to_os,
         qemu_accelerator |-> GetStr(env, "QEMU_ACCEL", None),
         repo_version |-> GetStr(env, "VERSION", PyStr("Unknown")),
         serial_port |->
             GetStr(env, "SERIAL_PORT",
                    IF plugin = "Q35" THEN PyStr("50001") ELSE None),
         shutdown_after_run |-> GetBool(env, "SHUTDOWN_AFTER_RUN", False),
         smm_enabled |-> GetBool(env, "SMM_ENABLED", True),
         tpm_dev |-> GetStr(env, "TPM_DEV", None),
         virtual_drive |-> GetStr(env, "VIRTUAL_DRIVE_PATH", None),
         code_fd |->
             PyStr(PathJoin(fv, IF plugin = "Q35" THEN "QEMUQ35_CODE.fd"
                                                  ELSE "QEMU_EFI.fd")),
         qemu_executable_path |->
             IF Truthy(qemu_path) THEN qemu_path
             ELSE IF Truthy(qemu_ext_dep_dir)
                  THEN PyStr(PathJoin(qemu_ext_dep_dir.s, Executable(plugin)))
                  ELSE DefaultExecutable(plugin),
         rom_path |->
             IF Truthy(qemu_ext_dep_dir)
             THEN PyStr(PathJoin(qemu_ext_dep_dir.s, "share")) ELSE None,
         var_store |->
             IF plugin = "Q35" /\ dfci_var_store # None THEN dfci_var_store
             ELSE orig_var_store,
         forward_ports |->
             IF Truthy(enable_network) /\ Truthy(dfci_var_store)
             THEN PyList(<<PyInt(8270), PyInt(8271)>>) ELSE None,
         boot_selection |->
             (IF Truthy(boot_to_front_page) THEN "Vol+" ELSE "")
                 \o (IF Truthy(alt_boot_enable) THEN "Vol-" ELSE ""),
         use_virtio |->
             IF Truthy(boot_to_front_page) THEN boot_to_front_page
             ELSE alt_boot_enable]

\* The raw strings of a Python list of str.
Strings(l) == [i \in 1..Len(l.xs) |-> l.xs[i].s]

\* The smbios_values dictionary each Runner passes to with_smbios. Building
\* it evaluates str.join(".", qemu_version).
SmbiosValues(plugin, cfg, qemu_version) ==
    PyDict([smbios0_vendor |-> "Patina",
            smbios0_version |-> cfg.repo_version.s,
            smbios1_manufacturer |-> "OpenDevicePartnership",
            smbios1_product |-> IF plugin = "Q35" THEN "QEMU Q35" ELSE "QEMU SBSA",
            smbios1_family |-> "QEMU",
            smbios1_version |-> Join(Strings(qemu_version), "."),
            smbios1_serial |-> "42-42-42-42",
            smbios1_uuid |-> "99fb60e2-181c-413a-a3cf-0a5fea8d87b0",
            smbios3_manufacturer |-> "OpenDevicePartnership",
            smbios3_serial |-> IF plugin = "Q35" THEN "40-41-42-43" ELSE "42-42-42-42",
            smbios3_asset |-> plugin,
            smbios3_sku |-> plugin,
            smbios3_version |-> cfg.boot_selection])

\* One link of a Runner's chain of builder calls.
Link(op, a) == [op |-> op, args |-> a]

\* Evaluating the arguments of with_smbios raises TypeError when the probe
\* gave None: str.join(".", None).
SmbiosLink(plugin, cfg, qemu_version) ==
    IF qemu_version = None THEN Link("raise", <<"TypeError">>)
    ELSE Link("with_smbios", <<SmbiosValues(plugin, cfg, qemu_version)>>)

\* The chain of the Q35 Runner, in source order.
ChainQ35(cfg, qemu_version) ==
    << Link("with_cpu", <<cfg.cpu_model, cfg.core_count>>),
       Link("with_machine", <<cfg.smm_enabled, cfg.qemu_accelerator>>),
       Link("with_memory",
            <<IF Truthy(cfg.path_to_os) THEN PyInt(8192) ELSE PyInt(2048)>>),
       Link("with_firmware", <<cfg.code_fd, cfg.var_store>>),
       Link("with_rom_path", <<cfg.rom_path>>),
       Link("with_os_storage", <<cfg.path_to_os>>),
       Link("with_usb_controller", <<>>),
       Link("with_usb_mouse", <<>>),
       Link("with_usb_storage", <<cfg.dfci_files, PyStr("dfci_disk")>>),
       Link("with_usb_storage", <<cfg.install_files, PyStr("install_disk")>>),
       Link("with_virtual_drive", <<cfg.virtual_drive>>),
       Link("with_display", <<PyNot(cfg.headless)>>),
       \* with_network(forward_ports, use_virtio): the two positional
       \* arguments land on the parameters enabled and forward_ports.
       Link("with_network", <<cfg.forward_ports, cfg.use_virtio, False>>),
       SmbiosLink("Q35", cfg, qemu_version),
       Link("with_tpm", <<cfg.tpm_dev>>),
       Link("with_gdb_server", <<cfg.gdb_server_port>>),
       Link("with_serial_port", <<cfg.serial_port, None>>),
       Link("with_monitor_port", <<cfg.monitor_port>>),
       Link("with_shutdown_from_guest", <<cfg.shutdown_after_run>>) >>

\* The chain of the SBSA Runner, in source order.
ChainSbsa(cfg, qemu_version) ==
    << Link("with_cpu", <<cfg.cpu_model, cfg.core_count>>),
       Link("with_machine", <<cfg.smm_enabled, cfg.qemu_accelerator>>),
       Link("with_memory",
            <<IF Truthy(cfg.path_to_os) THEN PyInt(8192) ELSE PyInt(2048)>>),
       Link("with_firmware", <<cfg.code_fd, cfg.var_store>>),
       Link("with_rom_path", <<cfg.rom_path>>),
       Link("with_os_storage", <<cfg.path_to_os>>),
       Link("with_usb_controller", <<>>),
       Link("with_usb_mouse", <<>>),
       Link("with_usb_keyboard", <<>>),
       Link("with_virtual_drive", <<cfg.virtual_drive>>),
       Link("with_display", <<PyNot(cfg.headless)>>),
       Link("with_network", <<False, None, False>>),
       SmbiosLink("SBSA", cfg, qemu_version),
       Link("with_tpm", <<cfg.tpm_dev>>),
       Link("with_gdb_server", <<cfg.gdb_server_port>>),
       Link("with_serial_port", <<cfg.serial_port, None>>),
       Link("with_monitor_port", <<cfg.monitor_port>>) >>

\* The calls of a chain made one after the other on b, each recorded in h,
\* up to the first one that raises.
RECURSIVE RunChain(_, _, _)
\* Call c on b gave r: the call is recorded and, unless it raised, the rest
\* of the chain follows.
RunLink(b, h, c, r, rest) ==
    LET h2 == Append(h, [op |-> c.op, args |-> c.args,
                         before |-> b, after |-> r.self,
                         exc |-> r.exc, ret |-> r.ret])
    IN  IF r.exc # "" THEN [self |-> r.self, hist |-> h2, exc |-> r.exc]
        ELSE RunChain(r.self, h2, rest)

RunChain(b, h, links) ==
    IF links = <<>> THEN [self |-> b, hist |-> h, exc |-> ""]
    ELSE IF Head(links).op = "raise"
    THEN [self |-> b, hist |-> h, exc |-> Head(links).args[1]]
    ELSE RunLink(b, h, Head(links),
                 Apply(b, Head(links).op, Head(links).args), Tail(links))

(***************************************************************************)
(* Runner(env) as a process: the plugin's steps, the emulator it launches  *)
(* and, on SBSA, the thread that runs the TPM companion.                   *)
(***************************************************************************)
\* No builder has been constructed yet.
NoBuilder == [architecture |-> "none"]

\* What `qemu --version` may do: fail, print something else, or print its
\* version.
Probes ==
    { [rc |-> 1, out |-> ""],
      [rc |-> 0, out |-> "qemu: usage"],
      [rc |-> 0, out |-> "QEMU emulator version 4.2.0"],
      [rc |-> 0, out |-> "QEMU emulator version 7.1.0"],
      [rc |-> 0, out |-> "QEMU emulator version 8.2.1 (v8.2.1)"],
      [rc |-> 0, out |-> "QEMU emulator version 10.0.0"] }

\* The exit codes the emulator may end with.
RawCodes == {EXIT_0, Code(0, 1), EXIT_33, SEGFAULT, ACCESS_VIOLATION}

\* The configuration providers the Runner is started with.
Envs ==
    { [BUILD_OUTPUT_BASE |-> PyStr("/build"),
       ENABLE_NETWORK |-> e, DFCI_VAR_STORE |-> d,
       BOOT_TO_FRONT_PAGE |-> f, ALT_BOOT_ENABLE |-> a,
       PATH_TO_OS |-> o, TPM_DEV |-> t] :
        e \in {None, PyStr("TRUE")},
        d \in {None, PyStr("/build/dfci_vars.fd")},
        f \in {None, PyStr("TRUE")},
        a \in {None, PyStr("true")},
        o \in {None, PyStr("/img/win.VHD"), PyStr("/img/disk.img")},
        t \in {None, PyStr("/tmp/tpm.sock")} }
    \cup { [BUILD_OUTPUT_BASE |-> None,
             ENABLE_NETWORK |-> None, DFCI_VAR_STORE |-> None,
             BOOT_TO_FRONT_PAGE |-> None, ALT_BOOT_ENABLE |-> None,
             PATH_TO_OS |-> None, TPM_DEV |-> None] }

\* The host's os.name
OsNames == {"posix", "nt"}

\* A local name of Runner(env) that no statement has assigned yet.
Unassigned == <<>>

\* Runner(env) is entered: nothing has been read yet.
RunnerInit ==
    /\ builder = NoBuilder
    /\ hist = <<>>
    /\ \E plugin \in QemuArchitecture, os_name \in OsNames, env \in Envs,
          probe \in Probes, emu_exit \in RawCodes :
           run = [pc |-> "start", plugin |-> plugin, os_name |-> os_name,
                  env |-> env, probe |-> probe, emu_exit |-> emu_exit,
                  cfg |-> None, qemu_version |-> None, cmd |-> Unassigned,
                  std_handle |-> "unbound", console |-> "saved_none",
                  stty |-> FALSE, tpm |-> "none", tpm_path |-> None,
                  ret |-> Unassigned, exc |-> ""]

\* The Runner stops with an exception.
Raise(e) == run' = [run EXCEPT !.pc = "raised", !.exc = e]

\* The settings are read and the emulator is asked for its version.
RunnerProbe ==
    /\ run.pc = "start"
    /\ UNCHANGED <<builder, hist>>
    /\ LET cfg == Settings(run.plugin, run.env)
       IN  IF cfg.exc # "" THEN Raise(cfg.exc)
           ELSE LET q == QueryQemuVersion(cfg.qemu_executable_path, run.probe)
                IN  IF q.exc # "" THEN Raise(q.exc)
                    ELSE run' = [run EXCEPT !.pc = "probed", !.cfg = cfg,
                                            !.qemu_version = q.ret]

RunnerAssemble_ignoring ==
    /\ run.pc = "probed"
    /\ LET b0 == QemuCommandBuilder(run.cfg.qemu_executable_path.s, run.plugin)
           links == IF run.plugin = "Q35"
                    THEN ChainQ35(run.cfg, run.qemu_version)
                    ELSE ChainSbsa(run.cfg, run.qemu_version)
           r == RunChain(b0, <<>>, links)
       IN  /\ builder' = r.self
           /\ hist' = r.hist
           /\ IF run.plugin = "Q35"
              THEN run' = [run EXCEPT !.pc = "assembled"]
              ELSE run' = [run EXCEPT !.pc = "assembled",
                                      !.cmd = build(r.self).ret,
                                      !.tpm = IF Truthy(run.cfg.tpm_dev)
                                              THEN "started" ELSE "none"]

\* The builder is constructed and the chain of calls is made on it. The SBSA
\* Runner then builds the command and starts the TPM thread.
RunnerAssemble ==
    /\ run.pc = "probed"
    /\ LET b0 == QemuCommandBuilder(run.cfg.qemu_executable_path.s, run.plugin)
           links == IF run.plugin = "Q35"
                    THEN ChainQ35(run.cfg, run.qemu_version)
                    ELSE ChainSbsa(run.cfg, run.qemu_version)
           r == RunChain(b0, <<>>, links)
       IN  /\ builder' = r.self
           /\ hist' = r.hist
           /\ IF r.exc # "" THEN Raise(r.exc)
              ELSE IF run.plugin = "Q35"
              THEN run' = [run EXCEPT !.pc = "assembled"]
              ELSE run' = [run EXCEPT !.pc = "assembled",
                                      !.cmd = build(r.self).ret,
                                      !.tpm = IF Truthy(run.cfg.tpm_dev)
                                              THEN "started" ELSE "none"]

\* qemu_version[0] >= "8"
IsV8OrLater(qemu_version) == StrGe(qemu_version.xs[1].s, "8")

\* On Windows with QEMU 8 or later the console mode is saved; reading it
\* may fail. The Q35 Runner builds the command after this.
RunnerSaveConsole ==
    /\ run.pc = "assembled"
    /\ UNCHANGED <<builder, hist>>
    /\ \E readable \in BOOLEAN :
           LET saving == run.os_name = "nt" /\ IsV8OrLater(run.qemu_version)
               cmd == IF run.plugin = "Q35" THEN build(builder).ret ELSE run.cmd
           IN  run' = [run EXCEPT
                          !.pc = "ready",
                          !.cmd = cmd,
                          !.std_handle = IF ~saving THEN "unbound"
                                         ELSE IF readable THEN "handle"
                                         ELSE "none",
                          !.console = IF saving /\ readable THEN "saved"
                                      ELSE "saved_none"]

RunnerLaunch_gated ==
    /\ run.pc = "ready"
    /\ run.tpm \in {"none", "running"}
    /\ UNCHANGED <<builder, hist>>
    /\ run' = [run EXCEPT !.pc = "running"]

\* RunCmd(executable, args) starts the emulator.
RunnerLaunch ==
    /\ run.pc = "ready"
    /\ UNCHANGED <<builder, hist>>
    /\ run' = [run EXCEPT !.pc = "running"]

\* The emulator ends and RunCmd hands back its exit code.
EmulatorExit ==
    /\ run.pc = "running"
    /\ UNCHANGED <<builder, hist>>
    /\ run' = [run EXCEPT !.pc = "exited", !.ret = run.emu_exit]

RunnerNormalize_zeroing ==
    /\ run.pc = "exited"
    /\ UNCHANGED <<builder, hist>>
    /\ run' = [run EXCEPT !.pc = "normalized", !.ret = EXIT_0]

\* The exit code is normalised.
RunnerNormalize ==
    /\ run.pc = "exited"
    /\ UNCHANGED <<builder, hist>>
    /\ LET crashed == \/ run.ret = ACCESS_VIOLATION
                      \/ run.plugin = "Q35" /\ run.ret = EXIT_33
           ret1 == IF crashed THEN EXIT_0 ELSE run.ret
           ret2 == IF ret1 = SEGFAULT /\ run.qemu_version.xs[1].s = "4"
                   THEN EXIT_0 ELSE ret1
       IN  run' = [run EXCEPT !.pc = "normalized", !.ret = ret2]

\* The console is put back: the saved mode on Windows, `stty sane` elsewhere.
RunnerRestore ==
    /\ run.pc = "normalized"
    /\ UNCHANGED <<builder, hist>>
    /\ LET setting == /\ run.os_name = "nt"
                      /\ IsV8OrLater(run.qemu_version)
                      /\ run.std_handle # "none"
       IN  run' = [run EXCEPT
                      !.pc = "restored",
                      !.console = IF setting THEN "restored" ELSE @,
                      !.stty = ~setting /\ run.os_name # "nt"]

RunnerJoin_early ==
    /\ run.pc = "ready"
    /\ run.tpm # "none"
    /\ UNCHANGED <<builder, hist>>
    /\ run' = [run EXCEPT !.pc = "joining"]

\* The SBSA Runner calls thread.join() if it started the TPM thread.
RunnerJoin ==
    /\ run.pc = "restored"
    /\ run.tpm # "none"
    /\ UNCHANGED <<builder, hist>>
    /\ run' = [run EXCEPT !.pc = "joining"]

RunnerReturn_unjoined ==
    /\ \/ run.pc = "restored" /\ run.tpm = "none"
       \/ run.pc = "joining"
    /\ UNCHANGED <<builder, hist>>
    /\ run' = [run EXCEPT !.pc = "returned"]

\* The Runner returns: at once when there is no thread, and when join()
\* returns, the thread having ended, otherwise.
RunnerReturn ==
    /\ \/ run.pc = "restored" /\ run.tpm = "none"
       \/ run.pc = "joining" /\ run.tpm \in {"done", "failed"}
    /\ UNCHANGED <<builder, hist>>
    /\ run' = [run EXCEPT !.pc = "returned"]

\* RunThread(env): the thread reads TPM_DEV again and starts swtpm, which
\* may fail to start: RunCmd then returns a non-zero code at once.
TpmStart ==
    /\ run.tpm = "started"
    /\ UNCHANGED <<builder, hist>>
    /\ \E starts \in BOOLEAN :
           LET tpm_path == GetValue(run.env, "TPM_DEV")
           IN  run' = [run EXCEPT !.tpm = IF tpm_path = None THEN "done"
                                          ELSE IF starts THEN "running"
                                          ELSE "failed",
                                  !.tpm_path = tpm_path]

TpmExit_aborting ==
    /\ run.tpm = "running"
    /\ UNCHANGED <<builder, hist>>
    /\ \E ok \in BOOLEAN :
           run' = IF ok THEN [run EXCEPT !.tpm = "done"]
                  ELSE [run EXCEPT !.tpm = "failed", !.pc = "raised"]

\* swtpm ends, with a zero or a non-zero code, and with it the thread: a
\* non-zero code is logged.
TpmExit ==
    /\ run.tpm = "running"
    /\ UNCHANGED <<builder, hist>>
    /\ \E ok \in BOOLEAN :
           run' = [run EXCEPT !.tpm = IF ok THEN "done" ELSE "failed"]

RunnerNext ==
    \/ RunnerProbe
    \/ RunnerAssemble
    \/ RunnerSaveConsole
    \/ RunnerLaunch
    \/ EmulatorExit
    \/ RunnerNormalize
    \/ RunnerRestore
    \/ RunnerJoin
    \/ RunnerReturn
    \/ TpmStart
    \/ TpmExit

RunnerSpec == RunnerInit /\ [][RunnerNext]_vars

(***************************************************************************)
(* Properties of the Runner.                                               *)
(***************************************************************************)
\* The Runner has returned or has stopped with an exception.
RunnerEnded == run.pc \in {"returned", "raised"}

\* The last builder call of the chain raised.
BuilderRaised == hist # <<>> /\ hist[Len(hist)].exc # ""

\* What the version probe of this run yields.
ProbeResult == QueryQemuVersion(DefaultExecutable(run.plugin), run.probe)

\* The exit code the Runner is to return for the emulator's exit code raw
\* when the probe gave qemu_version.
Normalised(raw, qemu_version) ==
    IF raw = ACCESS_VIOLATION THEN EXIT_0
    ELSE IF raw = SEGFAULT /\ qemu_version # None /\ qemu_version.xs[1].s = "4"
    THEN EXIT_0
    ELSE raw

\* C10: in both Runners, for every result of the version probe, the null
\* version included, an emulator that ends with 0xC0000005 makes the Runner
\* return 0, and one that ends with 0x8B makes it return 0 when the major
\* version is "4" and 0x8B otherwise. Runs whose probe raised or whose
\* builder rejected the configuration are left aside.
C10_ExitCodeNormalised ==
    ( /\ RunnerEnded
      /\ ProbeResult.exc = ""
      /\ ~BuilderRaised
      /\ run.emu_exit \in {ACCESS_VIOLATION, SEGFAULT} )
    => /\ run.pc = "returned"
       /\ run.ret = Normalised(run.emu_exit, ProbeResult.ret)

\* The major component of the probed version, "" when there is none.
Major(qemu_version) ==
    IF qemu_version = None THEN "" ELSE qemu_version.xs[1].s

\* The emulator's exit code is one the claims of C11 leave aside: the
\* access violation, or the segmentation fault under major version 4.
Rewritten(raw, qemu_version) ==
    raw = ACCESS_VIOLATION \/ (raw = SEGFAULT /\ Major(qemu_version) = "4")

\* C11, as stated: every exit code of the emulator other than 0xC0000005
\* and than 0x8B under major version 4 is returned unchanged by the Runner
\* of each plugin.
C11_OtherCodesUnchanged ==
    run.pc = "returned" /\ ~Rewritten(run.emu_exit, run.qemu_version)
        => run.ret = run.emu_exit

\* C11, amended: every exit code of the emulator other than 0xC0000005,
\* than 0x8B under major version 4 and, in the Q35 Runner, than 33 is
\* returned unchanged; the Q35 Runner returns 0 for 33.
C11_OtherCodesUnchangedBut33 ==
    run.pc = "returned" /\ ~Rewritten(run.emu_exit, run.qemu_version)
        => IF run.plugin = "Q35" /\ run.emu_exit = EXIT_33
           THEN run.ret = EXIT_0
           ELSE run.ret = run.emu_exit /\ (run.emu_exit # EXIT_0 => run.ret # EXIT_0)

\* A Runner returned the segmentation fault of an emulator whose major
\* version is not 4.
C11_Witness ==
    /\ run.pc = "returned"
    /\ run.emu_exit = SEGFAULT
    /\ Major(run.qemu_version) = "7"
    /\ run.ret = SEGFAULT

(***************************************************************************)
(* The script build_and_run_rust_binary.py: its settings.                  *)
(***************************************************************************)
\* The path separator of the host.
Sep(os_name) == IF os_name = "nt" THEN "\\" ELSE "/"

\* SCRIPT_DIR = Path(__file__).resolve().parent
ScriptDir(os_name) == IF os_name = "nt" THEN "C:\\patina-qemu" ELSE "/patina-qemu"

\* pathlib's a / b1 / b2 / ... on the host
RECURSIVE Under(_, _, _)
Under(os_name, a, parts) ==
    IF parts = <<>> THEN a
    ELSE Under(os_name, a \o Sep(os_name) \o Head(parts), Tail(parts))

\* Path.parent of a path with at least one separator
Parent(os_name, p) == SubSeq(p, 1, LastIndexOf(p, Sep(os_name)) - 1)

\* Path.with_suffix(suffix) of a path whose name has a suffix
WithSuffix(p, suffix) == SubSeq(p, 1, LastIndexOf(p, ".") - 1) \o suffix

\* The parsed command line: the options this model varies, the others at
\* their defaults (build target DEBUG, toolchain VS2022, which SBSA turns
\* into GCC5, no pre-compiled ROM, no QEMU path, no crate patch).
Toolchain(platform) == IF platform = "SBSA" THEN "GCC5" ELSE "VS2022"

\* code_fd of _configure_settings
CodeFd(platform, os_name) ==
    Under(os_name, ScriptDir(os_name),
          << "Build",
             IF platform = "Q35" THEN "QemuQ35PkgX64" ELSE "QemuSbsaPkg",
             "DEBUG_" \o Toolchain(platform),
             "FV",
             IF platform = "Q35" THEN "QEMUQ35_CODE.fd" ELSE "QEMU_EFI.fd" >>)

\* ref_fd = code_fd.with_suffix(".ref.fd")
RefFd(platform, os_name) == WithSuffix(CodeFd(platform, os_name), ".ref.fd")

\* var_store of _configure_settings
VarStore(platform, os_name) ==
    Under(os_name, Parent(os_name, CodeFd(platform, os_name)),
          <<IF platform = "Q35" THEN "QEMUQ35_VARS.fd" ELSE "SECURE_FLASH0.fd">>)

\* rom_path of _configure_settings
RomPath(os_name) ==
    Under(os_name, ScriptDir(os_name),
          <<"QemuPkg", "Binaries", "qemu-win_extdep", "share">>)

\* qemu_exec of _configure_settings when --qemu-path is not given
QemuExec(platform, os_name) ==
    IF platform = "SBSA" THEN "/usr/local/bin/qemu-system-aarch64"
    ELSE IF os_name = "nt"
    THEN Under(os_name, ScriptDir(os_name),
               <<"QemuPkg", "Binaries", "qemu-win_extdep", "qemu-system-x86_64">>)
    ELSE "/usr/local/bin/qemu-system-x86_64"

\* The chain of builder calls of _configure_settings for the Q35 platform.
ScriptChainQ35(args, os_name) ==
    << Link("with_cpu", <<None, PyInt(4)>>),
       Link("with_machine", <<True, None>>),
       Link("with_memory",
            <<IF Truthy(args.os) THEN PyInt(8192) ELSE PyInt(2048)>>),
       Link("with_firmware",
            <<PyStr(CodeFd("Q35", os_name)), PyStr(VarStore("Q35", os_name))>>),
       Link("with_rom_path", <<PyStr(RomPath(os_name))>>),
       Link("with_os_storage", <<args.os>>),
       Link("with_usb_controller", <<>>),
       Link("with_usb_mouse", <<>>),
       Link("with_display", <<True>>),
       Link("with_network", <<False, None, False>>),
       Link("with_smbios", <<None>>),
       Link("with_gdb_server", <<args.gdb_port>>),
       \* args.serial_port is 50001 when the option is not given
       Link("with_serial_port",
            <<IF args.serial_port = None THEN PyInt(50001) ELSE args.serial_port,
              None>>),
       Link("with_monitor_port", <<args.monitor_port>>) >>

\* The chain of builder calls of _configure_settings for the SBSA platform.
ScriptChainSbsa(args, os_name) ==
    << Link("with_cpu", <<None, PyInt(4)>>),
       Link("with_machine", <<True, None>>),
       Link("with_memory",
            <<IF Truthy(args.os) THEN PyInt(8192) ELSE PyInt(2048)>>),
       Link("with_firmware",
            <<PyStr(CodeFd("SBSA", os_name)), PyStr(VarStore("SBSA", os_name))>>),
       Link("with_rom_path", <<PyStr(RomPath(os_name))>>),
       Link("with_os_storage", <<args.os>>),
       Link("with_usb_controller", <<>>),
       Link("with_usb_mouse", <<>>),
       Link("with_usb_keyboard", <<>>),
       Link("with_display", <<True>>),
       Link("with_network", <<False, None, False>>),
       Link("with_smbios", <<None>>),
       Link("with_gdb_server", <<args.gdb_port>>),
       Link("with_serial_port", <<args.serial_port, None>>),
       Link("with_monitor_port", <<args.monitor_port>>) >>

(***************************************************************************)
(* The script as a process: main() and the children of its three stages.   *)
(***************************************************************************)
\* The command lines the script is started with.
ScriptArgs ==
    { [custom_efi |-> e, os |-> o, gdb_port |-> p[1], serial_port |-> p[2],
       monitor_port |-> p[3]] :
        e \in {None, PyStr("/efi/custom.efi")},
        o \in {None, PyStr("/img/win.VHD"), PyStr("/img/disk.img")},
        p \in {<<None, None, None>>, <<PyInt(1234), PyInt(50002), PyInt(5555)>>} }

\* What the host's console offers to _run_qemu: on Windows GetStdHandle
\* gives a handle or 0, GetConsoleMode succeeds or not, and the input mode
\* is a set of flags, possibly none.
HostConsoles ==
    { [os_name |-> "posix", std_handle |-> 0, readable |-> FALSE, mode |-> 0] }
    \cup { [os_name |-> "nt", std_handle |-> 0, readable |-> FALSE, mode |-> 7] }
    \cup { [os_name |-> "nt", std_handle |-> 1, readable |-> r, mode |-> m] :
             r \in BOOLEAN, m \in {0, 7} }

\* The exit statuses a child process may end with, as Code pairs.
ChildCodes == {EXIT_0, Code(0, 1), SEGFAULT}

\* The emulator may also end with the access violation of Windows.
EmulatorCodes == ChildCodes \cup {ACCESS_VIOLATION}

\* An event of a stage: it started, or its child process exited with rc.
Started(stage) == [stage |-> stage, ev |-> "start", rc |-> EXIT_0]
Exited(stage, rc) == [stage |-> stage, ev |-> "exit", rc |-> rc]

\* os.environ of the script's process when it is started: the variable
\* RUSTC_BOOTSTRAP is unset, or set by the caller.
HostEnvirons ==
    { [RUSTC_BOOTSTRAP |-> v] : v \in {None, PyStr("0"), PyStr("1")} }

\* x in xs, for a Python list xs
ListContains(xs, x) == \E i \in 1..Len(xs) : xs[i] = x

\* build_cmd of _configure_settings, for the default build target with no
\* crate patch and no features.
BuildCmd(platform) ==
    <<"cargo", "-Zunstable-options", "-C", "../patina-dxe-core-qemu", "make",
      IF platform = "Q35" THEN "q35" ELSE "sbsa">>

\* subprocess.run starts the child of a stage with the environment env.
Spawned(stage, env) == [stage |-> stage, env |-> env]

\* main() is entered.
ScriptInit ==
    /\ builder = NoBuilder
    /\ hist = <<>>
    /\ \E platform \in QemuArchitecture, args \in ScriptArgs,
          host \in HostConsoles, qemu_is_file \in BOOLEAN,
          code_fd_exists \in BOOLEAN, environ \in HostEnvirons :
           run = [pc |-> "start", platform |-> platform, args |-> args,
                  environ |-> environ, build_cmd |-> <<>>, spawns |-> <<>>,
                  host |-> host, qemu_is_file |-> qemu_is_file,
                  code_fd_exists |-> code_fd_exists,
                  cmd |-> <<>>, trace |-> <<>>, ref_exists |-> FALSE,
                  std_handle |-> 0, original_mode |-> 0,
                  console |-> host.mode, restores |-> 0,
                  status |-> None]

\* The interpreter ends with this exit status.
Exit(r, status) == [r EXCEPT !.pc = "exited", !.status = PyInt(status)]

\* _configure_settings: the SBSA branch wants the emulator to be a file, the
\* builder chain is run and the command is built. Neither FileNotFoundError
\* nor the Exception of with_os_storage is caught by main(): the
\* interpreter prints the traceback and ends with status 1.
ScriptConfigure ==
    /\ run.pc = "start"
    /\ IF run.platform = "SBSA" /\ ~run.qemu_is_file
       THEN /\ run' = Exit(run, Code(0, 1))
            /\ UNCHANGED <<builder, hist>>
       ELSE LET os_name == run.host.os_name
                b0 == QemuCommandBuilder(QemuExec(run.platform, os_name),
                                         run.platform)
                links == IF run.platform = "Q35"
                         THEN ScriptChainQ35(run.args, os_name)
                         ELSE ScriptChainSbsa(run.args, os_name)
                r == RunChain(b0, <<>>, links)
            IN  /\ builder' = r.self
                /\ hist' = r.hist
                /\ IF r.exc # "" THEN run' = Exit(run, Code(0, 1))
                   ELSE run' = [run EXCEPT
                                   !.pc = "configured",
                                   !.build_cmd = BuildCmd(run.platform),
                                   !.cmd = <<r.self.executable>> \o r.self.args]

\* settings["custom_efi"]
CustomEfi == run.args.custom_efi # None

\* env = os.environ.copy(), with RUSTC_BOOTSTRAP put in when the build
\* command holds the unstable-options flag.
BuildEnv(environ, build_cmd) ==
    IF ListContains(build_cmd, "-Zunstable-options")
    THEN [environ EXCEPT !.RUSTC_BOOTSTRAP = PyStr("1")]
    ELSE environ

ScriptBuildStart_always ==
    /\ run.pc = "configured"
    /\ UNCHANGED <<builder, hist>>
    /\ run' = [run EXCEPT !.pc = "building",
                          !.trace = Append(@, Started("Build")),
                          !.spawns = Append(@, Spawned("Build",
                                         BuildEnv(run.environ, run.build_cmd)))]

ScriptBuildStart_exporting ==
    /\ run.pc = "configured"
    /\ ~CustomEfi
    /\ UNCHANGED <<builder, hist>>
    /\ run' = [run EXCEPT !.pc = "building",
                          !.trace = Append(@, Started("Build")),
                          !.environ = BuildEnv(run.environ, run.build_cmd),
                          !.spawns = Append(@, Spawned("Build",
                                         BuildEnv(run.environ, run.build_cmd)))]

\* _build_rust_dxe_core starts the build command, unless a custom EFI was
\* given.
ScriptBuildStart ==
    /\ run.pc = "configured"
    /\ ~CustomEfi
    /\ UNCHANGED <<builder, hist>>
    /\ run' = [run EXCEPT !.pc = "building",
                          !.trace = Append(@, Started("Build")),
                          !.spawns = Append(@, Spawned("Build",
                                         BuildEnv(run.environ, run.build_cmd)))]

\* The build command exits: sys.exit(e.returncode) when it failed.
ScriptBuildExit ==
    /\ run.pc = "building"
    /\ UNCHANGED <<builder, hist>>
    /\ \E rc \in ChildCodes :
           LET r == [run EXCEPT !.trace = Append(@, Exited("Build", rc))]
           IN  run' = IF rc = EXIT_0 THEN [r EXCEPT !.pc = "built"] ELSE Exit(r, rc)

\* _patch_rust_binary copies the firmware image to the reference path and
\* starts the patch tool. shutil.copy raises when there is no image.
ScriptPatchStart ==
    /\ \/ run.pc = "built"
       \/ run.pc = "configured" /\ CustomEfi
    /\ UNCHANGED <<builder, hist>>
    /\ LET r == [run EXCEPT !.trace = Append(@, Started("Patch"))]
       IN  run' = IF ~run.code_fd_exists THEN Exit(r, Code(0, 1))
                  ELSE [r EXCEPT !.pc = "patching", !.ref_exists = TRUE,
                                 !.spawns = Append(@, Spawned("Patch",
                                                run.environ))]

ScriptPatchExit_ignoring ==
    /\ run.pc = "patching"
    /\ UNCHANGED <<builder, hist>>
    /\ \E rc \in ChildCodes :
           run' = [run EXCEPT !.trace = Append(@, Exited("Patch", rc)),
                              !.pc = "patched", !.ref_exists = FALSE]

\* The patch tool exits: on success the reference copy is unlinked, on
\* failure CalledProcessError leaves _patch_rust_binary and main() exits
\* with the tool's status.
ScriptPatchExit ==
    /\ run.pc = "patching"
    /\ UNCHANGED <<builder, hist>>
    /\ \E rc \in ChildCodes :
           LET r == [run EXCEPT !.trace = Append(@, Exited("Patch", rc))]
           IN  run' = IF rc = EXIT_0
                      THEN [r EXCEPT !.pc = "patched", !.ref_exists = FALSE]
                      ELSE Exit(r, rc)

\* _run_qemu: on Windows the console input mode is read, then the emulator
\* is started.
ScriptRunStart ==
    /\ run.pc = "patched"
    /\ UNCHANGED <<builder, hist>>
    /\ LET nt == run.host.os_name = "nt"
           got == nt /\ run.host.std_handle # 0 /\ run.host.readable
       IN  run' = [run EXCEPT
                      !.pc = "running",
                      !.trace = Append(@, Started("Run")),
                      !.spawns = Append(@, Spawned("Run", run.environ)),
                      !.std_handle = IF got THEN run.host.std_handle ELSE 0,
                      !.original_mode = IF got THEN run.console ELSE 0]

\* What the emulator makes of the console input mode.
Garbled(mode) == mode + 512

\* The emulator exits, leaving the console garbled.
ScriptQemuExit ==
    /\ run.pc = "running"
    /\ UNCHANGED <<builder, hist>>
    /\ \E rc \in EmulatorCodes :
           run' = [run EXCEPT !.pc = "cleanup",
                              !.trace = Append(@, Exited("Run", rc)),
                              !.console = Garbled(@)]

\* The finally block of _run_qemu, then main() ends: with status 0, or with
\* the emulator's status through CalledProcessError.
ScriptRunCleanup ==
    /\ run.pc = "cleanup"
    /\ UNCHANGED <<builder, hist>>
    /\ LET restoring == /\ run.host.os_name = "nt"
                        /\ run.std_handle # 0
                        /\ run.original_mode # 0
           r == IF restoring
                THEN [run EXCEPT !.console = run.original_mode,
                                 !.restores = @ + 1]
                ELSE run
       IN  run' = Exit(r, run.trace[Len(run.trace)].rc)

ScriptNext ==
    \/ ScriptConfigure
    \/ ScriptBuildStart
    \/ ScriptBuildExit
    \/ ScriptPatchStart
    \/ ScriptPatchExit
    \/ ScriptRunStart
    \/ ScriptQemuExit
    \/ ScriptRunCleanup

ScriptSpec == ScriptInit /\ [][ScriptNext]_vars

(***************************************************************************)
(* Properties of the script.                                               *)
(***************************************************************************)
\* The positions of run.trace.
Events == 1..Len(run.trace)

\* The stages in pipeline order.
StageNo == [Build |-> 1, Patch |-> 2, Run |-> 3]

StartOf(stage) == {i \in Events : run.trace[i] = Started(stage)}
HasStarted(stage) == StartOf(stage) # {}

\* The child of the stage has exited with status 0.
Succeeded(stage) == \E i \in Events : run.trace[i] = Exited(stage, EXIT_0)

\* The child of the stage has exited with another status.
Failed(stage) ==
    \E i \in Events :
        /\ run.trace[i].stage = stage
        /\ run.trace[i].ev = "exit"
        /\ run.trace[i].rc # EXIT_0

\* _configure_settings returned the settings.
Configured == run.cmd # <<>>

\* The stages start in pipeline order, each at most once, and each only
\* after the child of the stage started before it has exited.
StagesInOrder ==
    /\ \A stage \in DOMAIN StageNo : Cardinality(StartOf(stage)) <= 1
    /\ \A i, j \in Events :
           i < j /\ run.trace[i].ev = "start" /\ run.trace[j].ev = "start"
               => /\ StageNo[run.trace[i].stage] < StageNo[run.trace[j].stage]
                  /\ \E k \in (i + 1)..(j - 1) :
                         /\ run.trace[k].ev = "exit"
                         /\ run.trace[k].stage = run.trace[i].stage

\* When the script has ended: Build was started exactly if no custom EFI
\* was given, and Patch and Run were started if all stages before them
\* succeeded.
StagesAllRun ==
    run.pc = "exited" =>
        /\ HasStarted("Build") <=> ~CustomEfi
        /\ (CustomEfi \/ Succeeded("Build")) => HasStarted("Patch")
        /\ (CustomEfi \/ Succeeded("Build")) /\ Succeeded("Patch")
               => HasStarted("Run")

\* C12, as stated: in every run of main() the stages start in the order
\* Build, Patch, Run, each at most once and only after the child of the
\* previous stage has exited; Build is started exactly if no custom EFI was
\* given, and Patch and Run are started whenever all earlier stages
\* succeeded.
C12_StagesInOrderEveryRun == StagesInOrder /\ StagesAllRun

\* C12, amended: the same, for the runs in which _configure_settings
\* returned; when it raises, no stage is started.
C12_StagesInOrderOnceConfigured ==
    /\ StagesInOrder
    /\ Configured => StagesAllRun
    /\ ~Configured => run.trace = <<>>

\* All three stages ran, one after the other, and the script ended.
C12_Witness ==
    /\ run.pc = "exited"
    /\ ~CustomEfi
    /\ Len(run.trace) = 6
    /\ Succeeded("Build") /\ Succeeded("Patch") /\ Succeeded("Run")

\* C13: when the child of a stage exits with a non-zero status, no stage is
\* started afterwards, the stage is not started again, and the script ends
\* with that status.
C13_FailedStageEndsScript ==
    \A i \in Events :
        run.trace[i].ev = "exit" /\ run.trace[i].rc # EXIT_0
            => /\ i = Len(run.trace)
               /\ Cardinality(StartOf(run.trace[i].stage)) = 1
               /\ run.pc \in {"cleanup", "exited"}
               /\ run.pc = "exited" => run.status = PyInt(run.trace[i].rc)

\* The patch tool failed after a successful build, and the script ended
\* with the tool's status without starting the emulator.
C13_Witness ==
    /\ run.pc = "exited"
    /\ Succeeded("Build")
    /\ run.trace[Len(run.trace)] = Exited("Patch", SEGFAULT)
    /\ run.status = PyInt(SEGFAULT)
    /\ ~HasStarted("Run")

\* C14: whenever the Patch stage has ended, the patch tool having exited
\* with zero or with non-zero status, the reference copy of the firmware
\* image no longer exists.
C14_ReferenceCopyDeleted ==
    (\E i \in Events : run.trace[i].stage = "Patch" /\ run.trace[i].ev = "exit")
        => ~run.ref_exists

\* _run_qemu read the console input mode before it started the emulator.
Captured == HasStarted("Run") /\ run.std_handle # 0

\* C15: in every run of the Run stage in which the console state was
\* captured before the emulator was launched, that state has been restored,
\* exactly once, when the stage is left after the emulator's exit, whatever
\* the emulator's exit status. Stated here for _run_qemu of the script.
C15_CapturedConsoleRestored ==
    run.pc = "exited" /\ Captured /\ (Succeeded("Run") \/ Failed("Run"))
        => run.restores = 1 /\ run.console = run.original_mode

(***************************************************************************)
(* Properties of the TPM companion of the SBSA Runner.                     *)
(***************************************************************************)
\* The Runner has passed the place where it starts the TPM thread.
PastThreadStart ==
    run.pc \in {"assembled", "ready", "running", "exited", "normalized",
                "restored", "joining", "returned"}

\* A TPM socket path is configured.
TpmConfigured == Truthy(GetStr(run.env, "TPM_DEV", None))

\* The emulator process has exited: RunCmd has handed back its exit code.
EmulatorExited == run.ret # Unassigned

\* C16: an SBSA Runner that gets as far as building the command starts the
\* TPM thread exactly if a TPM socket path is configured (a Runner that
\* raised before that, and the Q35 Runner, start none), and the control
\* thread is in thread.join() only after the emulator process has exited.
C16_JoinAfterEmulatorExit ==
    /\ run.tpm # "none" => run.plugin = "SBSA" /\ TpmConfigured /\ PastThreadStart
    /\ run.plugin = "SBSA" /\ PastThreadStart /\ TpmConfigured => run.tpm # "none"
    /\ run.pc = "joining" => EmulatorExited /\ run.tpm # "none"
    /\ run.pc = "returned" /\ run.tpm # "none" => run.tpm \in {"done", "failed"}

\* The control thread waits in join() for a companion that is still
\* running, after the emulator has exited.
C16_Witness ==
    /\ run.pc = "joining"
    /\ run.tpm = "running"
    /\ EmulatorExited

\* C17: a companion that fails to start or exits with a non-zero code
\* neither stops the Runner nor keeps the emulator from being launched or
\* from running to its end, and what the SBSA Runner returns is fixed by the
\* emulator's exit code and the probed version alone.
C17_CompanionFailureIgnored ==
    /\ run.tpm = "failed" =>
           /\ run.pc # "raised"
           /\ run.pc = "assembled" => ENABLED RunnerSaveConsole
           /\ run.pc = "ready" => ENABLED RunnerLaunch
           /\ run.pc = "running" => ENABLED EmulatorExit
    /\ run.plugin = "SBSA" /\ run.pc = "returned" =>
           run.ret = Normalised(run.emu_exit, run.qemu_version)

\* The companion failed while the emulator was running, and the Runner
\* returned the emulator's own exit code.
C17_Witness ==
    /\ run.plugin = "SBSA"
    /\ run.pc = "returned"
    /\ run.tpm = "failed"
    /\ run.emu_exit = EXIT_0
    /\ run.ret = EXIT_0

(***************************************************************************)
(* Properties of the version probe.                                        *)
(***************************************************************************)
\* The version invocation failed: it exited non-zero, or its output holds
\* no "version <digits and dots>".
ProbeFailed == run.probe.rc # 0 \/ VersionSearch(run.probe.out) = <<>>

\* C18: QueryQemuVersion returns None and does not raise when the version
\* invocation exits non-zero or prints no "version <digits and dots>".
C18_ProbeFailureYieldsNull ==
    run.pc # "start" /\ ProbeFailed
        => /\ ProbeResult = [exc |-> "", ret |-> None]
           /\ run.exc # "AttributeError"

\* The code the Runner returns when no version-dependent rewriting applies.
Unversioned(plugin, raw) ==
    IF raw = ACCESS_VIOLATION THEN EXIT_0
    ELSE IF plugin = "Q35" /\ raw = EXIT_33 THEN EXIT_0
    ELSE raw

\* C19: a Runner whose version probe returned None, and whose configuration
\* the builder accepts, ends by returning the emulator's exit code with no
\* version-dependent rewriting; it does not raise.
C19_NullVersionStillRuns ==
    ( /\ RunnerEnded
      /\ ProbeResult = [exc |-> "", ret |-> None]
      /\ ~BuilderRaised )
    => /\ run.pc = "returned"
       /\ run.exc = ""
       /\ run.ret = Unversioned(run.plugin, run.emu_exit)

(***************************************************************************)
(* Properties of the command the script configures.                        *)
(***************************************************************************)
\* The places of token t in the token sequence ts.
PlacesOf(ts, t) == {i \in 1..Len(ts) : ts[i] = t}

\* Every occurrence of token t in ts is immediately followed by token v.
FollowedBy(ts, t, v) ==
    \A i \in PlacesOf(ts, t) : i < Len(ts) /\ ts[i + 1] = v

\* A token that attaches a network device or names a network backend.
NetworkToken(t) ==
    \/ t = "-netdev"
    \/ Contains(t, "netdev=")
    \/ StartsWith(t, "virtio-net")
    \/ StartsWith(t, "e1000")
    \/ StartsWith(t, "user,")

\* C20: the Q35 builder the script configures for a run without an OS image
\* (memory 2048, networking disabled) holds -m exactly once, followed by
\* 2048, holds -net followed by none, and holds neither -netdev nor a
\* network device token; the command of the run is the executable followed
\* by these tokens.
C20_ScriptQ35MemoryAndNetwork ==
    run.platform = "Q35" /\ Configured /\ ~Truthy(run.args.os)
        => /\ Cardinality(PlacesOf(builder.args, "-m")) = 1
           /\ FollowedBy(builder.args, "-m", "2048")
           /\ PlacesOf(builder.args, "-net") # {}
           /\ FollowedBy(builder.args, "-net", "none")
           /\ \A i \in 1..Len(builder.args) : ~NetworkToken(builder.args[i])
           /\ run.cmd = <<builder.executable>> \o builder.args

\* The script has configured a Q35 run without an OS image and has gone on
\* to launch the emulator with that command.
C20_Witness ==
    /\ run.platform = "Q35"
    /\ ~Truthy(run.args.os)
    /\ run.pc = "running"
    /\ PlacesOf(run.cmd, "-m") # {}
    /\ PlacesOf(run.cmd, "-net") # {}

(***************************************************************************)
(* The orchestrator in either of its forms: the build/patch/run script or  *)
(* the Runner of a platform plugin.                                        *)
(***************************************************************************)
\* This run is a plugin's Runner(env), not the script's main().
IsRunner == "plugin" \in DOMAIN run

OrchestratorInit == ScriptInit \/ RunnerInit

OrchestratorNext ==
    \/ IsRunner /\ RunnerNext
    \/ ~IsRunner /\ ScriptNext

OrchestratorSpec == OrchestratorInit /\ [][OrchestratorNext]_vars

\* The OS image the run is configured with.
ConfiguredOs ==
    IF IsRunner THEN GetStr(run.env, "PATH_TO_OS", None) ELSE run.args.os

\* with_os_storage knows no storage format for the extension of the path.
UnrecognisedOs(path_to_os) ==
    /\ Truthy(path_to_os)
    /\ StorageFormat(RemoveChar(Lower(PathSuffix(Str(path_to_os))), "\"")) = ""

\* C21: with an OS image of unrecognized extension the script launches no
\* Build, Patch or Run child process and ends with a non-zero status, and a
\* plugin's Runner never launches the emulator and returns no code.
C21_BadImageAbortsBeforeStages ==
    UnrecognisedOs(ConfiguredOs) =>
        IF IsRunner
        THEN /\ run.pc \in {"start", "probed", "raised"}
             /\ run.cmd = Unassigned
             /\ run.ret = Unassigned
        ELSE /\ run.pc \in {"start", "exited"}
             /\ run.trace = <<>>
             /\ run.cmd = <<>>
             /\ run.pc = "exited" => run.status # PyInt(EXIT_0)

\* The script has ended, started no stage, after with_os_storage raised on
\* the image's extension.
C21_Witness ==
    /\ ~IsRunner
    /\ UnrecognisedOs(run.args.os)
    /\ run.pc = "exited"
    /\ run.trace = <<>>
    /\ BuilderRaised
    /\ hist[Len(hist)].op = "with_os_storage"

(***************************************************************************)
(* Properties of single builder operations.                                *)
(***************************************************************************)
\* The token sequence ts ends with the tokens of tail.
EndsWithTokens(ts, tail) ==
    /\ Len(tail) <= Len(ts)
    /\ SubSeq(ts, Len(ts) - Len(tail) + 1, Len(ts)) = tail

\* C22: every with_cpu call that passes a core count appends -smp and the
\* count, on either architecture, also when an earlier with_cpu call has
\* configured the CPU.
C22_CoreCountAlwaysAppended ==
    \A i \in Calls :
        hist[i].op = "with_cpu" /\ Truthy(hist[i].args[2])
            => EndsWithTokens(Appended(i), <<"-smp", Str(hist[i].args[2])>>)

\* Call i is the first call of its operation that reaches the operation's
\* body: the category's flag is not set before it.
FirstOf(i, op) ==
    /\ hist[i].op = op
    /\ ~hist[i].before[FlagOf[op]]

\* The accelerators with_machine passes on to the emulator.
KnownAccel == {"kvm", "tcg", "whpx"}

\* The global property pair that secures the flash.
FlashSecurePair == <<"-global", "driver=cfi.pflash01,property=secure,value=on">>

\* C23: the first with_machine(smm_enabled, accel) call, accel being a string
\* or None, raises nothing; on
\* Q35 its machine token holds accel=<lower-cased accel> exactly if the
\* lower-cased accel is kvm, tcg or whpx, and holds smm=on or smm=off as
\* smm_enabled says; on both architectures the flash-security pair follows
\* the machine pair exactly if smm_enabled is true.
C23_MachineTokens ==
    \A i \in Calls :
        FirstOf(i, "with_machine") =>
            LET smm_enabled == Truthy(hist[i].args[1])
                accel == hist[i].args[2]
                lower == IF accel = None THEN "" ELSE Lower(accel.s)
                new == Appended(i)
            IN  /\ hist[i].exc = ""
                /\ Len(new) >= 2
                /\ new[1] = "-machine"
                /\ hist[i].before.architecture = "Q35" =>
                       /\ StartsWith(new[2], "q35,")
                       /\ Contains(new[2], "accel=") <=> lower \in KnownAccel
                       /\ lower \in KnownAccel =>
                              EndsWith(new[2], ",accel=" \o lower)
                       /\ Contains(new[2], "smm=on") <=> smm_enabled
                       /\ Contains(new[2], "smm=off") <=> ~smm_enabled
                /\ hist[i].before.architecture = "SBSA" => new[2] = "sbsa-ref"
                /\ IF smm_enabled
                   THEN SubSeq(new, 3, Len(new)) = FlashSecurePair
                   ELSE Len(new) = 2

\* A first with_machine call on Q35 was given KVM in upper case, with SMM
\* off, and one was given an accelerator the emulator is not told of.
C23_Witness ==
    \E i \in Calls :
        /\ FirstOf(i, "with_machine")
        /\ hist[i].before.architecture = "Q35"
        /\ hist[i].args = <<False, PyStr("KVM")>>
        /\ Appended(i) = <<"-machine", "q35,smm=off,accel=kvm">>

\* The forward clause of a port: the same port on the host and the guest side.
ForwardClause(port) == "hostfwd=tcp::" \o Str(port) \o "-:" \o Str(port)

\* The user-mode backend token that forwards the ports of the list, in order.
UserBackend(forward_ports) ==
    LET ports == IF forward_ports = None THEN <<>> ELSE forward_ports.xs
    IN  Join(<<"user", "id=net0">>
             \o [k \in 1..Len(ports) |-> ForwardClause(ports[k])], ",")

\* C24: the first with_network call appends exactly -net none when
\* networking is disabled; when it is enabled it appends -netdev with one
\* user-mode backend token, which holds one TCP forward clause per entry of
\* forward_ports, in list order, and then exactly one device: virtio-net-pci
\* when use_virtio is true, e1000 otherwise.
C24_NetworkTokens ==
    \A i \in Calls :
        FirstOf(i, "with_network") =>
            LET enabled == Truthy(hist[i].args[1])
                forward_ports == hist[i].args[2]
                use_virtio == Truthy(hist[i].args[3])
                new == Appended(i)
            IN  /\ hist[i].exc = ""
                /\ IF ~enabled
                   THEN new = <<"-net", "none">>
                   ELSE new = <<"-netdev", UserBackend(forward_ports),
                                "-device",
                                IF use_virtio THEN "virtio-net-pci,netdev=net0"
                                ELSE "e1000,netdev=net0">>

\* A first with_network call forwarded two ports to a virtio device.
C24_Witness ==
    \E i \in Calls :
        /\ FirstOf(i, "with_network")
        /\ hist[i].args = <<True, PyList(<<PyInt(8270), PyInt(8271)>>), True>>
        /\ Appended(i) =
               <<"-netdev",
                 "user,id=net0,hostfwd=tcp::8270-:8270,hostfwd=tcp::8271-:8271",
                 "-device", "virtio-net-pci,netdev=net0">>

\* The tokens with_tpm is to append for a socket path on an architecture.
TpmTokens(architecture, tpm_dev) ==
    <<"-chardev", "socket,id=chrtpm,path=" \o Str(tpm_dev),
      "-tpmdev", "emulator,id=tpm0,chardev=chrtpm">>
    \o (IF architecture = "Q35" THEN <<"-device", "tpm-tis,tpmdev=tpm0">>
        ELSE <<>>)

\* C25: with_tpm leaves the tokens and the TPM flag as they are when the
\* TPM is already configured or the socket path is empty, be it None or the
\* empty string; otherwise it appends the character-device pair and the TPM
\* backend pair, and on Q35 the TPM interface device pair after them.
C25_TpmNoOpOnEmptyPath ==
    \A i \in Calls :
        hist[i].op = "with_tpm" =>
            /\ hist[i].exc = ""
            /\ IF hist[i].before.tpm_added \/ ~Truthy(hist[i].args[1])
               THEN hist[i].after = hist[i].before
               ELSE /\ hist[i].after.tpm_added
                    /\ Appended(i) = TpmTokens(hist[i].before.architecture,
                                               hist[i].args[1])

\* Call i is a with_usb_storage call whose path is not empty and names
\* neither a regular file nor a directory.
UsbPathMissing(i) ==
    /\ hist[i].op = "with_usb_storage"
    /\ Truthy(hist[i].args[1])
    /\ ~isfile(hist[i].args[1])
    /\ ~isdir(hist[i].args[1])

\* C26: a with_usb_storage call with a non-empty path that is neither a
\* regular file nor a directory raises nothing and leaves the whole builder
\* as it found it, the counter of auto-generated ids included, so that the
\* next call generates the id it would have generated without this call.
C26_UsbMissingPathIsNoOp ==
    \A i \in Calls :
        UsbPathMissing(i) =>
            /\ hist[i].exc = ""
            /\ hist[i].after = hist[i].before
            /\ \A a \in UsbStorageArgs :
                   Apply(hist[i].after, "with_usb_storage", a).self.args
                       = Apply(hist[i].before, "with_usb_storage", a).self.args

\* The lower-cased extension of a path.
LowerExt(path) == Lower(PathSuffix(Str(path)))

\* The drive token attaches the image with the format under the id, with
\* interface none.
DriveToken(token, path, format, id) ==
    /\ StartsWith(token, "file=" \o Str(path) \o ",format=" \o format \o ",")
    /\ Contains(token, ",if=none")
    /\ EndsWith(token, ",id=" \o id)

\* C27: with_os_storage dispatches on the lower-cased extension of a
\* non-empty path: .iso appends the CD-ROM pair alone on both architectures;
\* .vhd (format raw) and .qcow2 (format qcow2) append a drive token with
\* interface none and then device tokens of their own that name the drive's
\* id, an NVMe device on Q35, an AHCI controller and then an IDE hard disk
\* on SBSA; an empty path appends nothing.
C27_OsStorageDispatch ==
    \A i \in Calls :
        hist[i].op = "with_os_storage" =>
            LET path == hist[i].args[1]
                new == Appended(i)
                q35 == hist[i].before.architecture = "Q35"
                format == IF LowerExt(path) = ".vhd" THEN "raw" ELSE "qcow2"
            IN  /\ ~Truthy(path) => hist[i].after = hist[i].before
                /\ Truthy(path) /\ LowerExt(path) = ".iso" =>
                       hist[i].exc = "" /\ new = <<"-cdrom", Str(path)>>
                /\ Truthy(path) /\ LowerExt(path) \in {".vhd", ".qcow2"} =>
                       /\ hist[i].exc = ""
                       /\ Len(new) = IF q35 THEN 4 ELSE 6
                       /\ new[1] = "-drive"
                       /\ new[3] = "-device"
                       /\ IF q35
                          THEN /\ DriveToken(new[2], path, format, "os_nvme")
                               /\ StartsWith(new[4], "nvme,")
                               /\ EndsWith(new[4], ",drive=os_nvme")
                          ELSE /\ DriveToken(new[2], path, format, "os_disk")
                               /\ StartsWith(new[4], "ahci,")
                               /\ new[5] = "-device"
                               /\ StartsWith(new[6], "ide-hd,")
                               /\ Contains(new[6], "drive=os_disk,")

\* A .VHD image was attached to an SBSA builder: raw drive, AHCI controller,
\* IDE hard disk.
C27_Witness ==
    \E i \in Calls :
        /\ hist[i].op = "with_os_storage"
        /\ hist[i].before.architecture = "SBSA"
        /\ hist[i].args = <<PyStr("/img/win.VHD")>>
        /\ Appended(i) =
               <<"-drive", "file=/img/win.VHD,format=raw,if=none,id=os_disk",
                 "-device", "ahci,id=ahci",
                 "-device", "ide-hd,drive=os_disk,bus=ahci.0">>

(***************************************************************************)
(* Properties of the settings the Runners read.                            *)
(***************************************************************************)
\* C28: whatever keys the configuration provider leaves unset, the Runner
\* raises nothing on their account: when the probe gives a version and the
\* builder accepts the configuration, the Runner assembles the command,
\* launches the emulator and returns.
C28_AbsentKeysFallBack ==
    ( /\ RunnerEnded
      /\ ProbeResult.exc = ""
      /\ ProbeResult.ret # None
      /\ ~BuilderRaised )
    => /\ run.pc = "returned"
       /\ run.exc = ""
       /\ run.cmd # Unassigned

(***************************************************************************)
(* Properties of the script's exit status.                                 *)
(***************************************************************************)
\* The exit event of the stage's child process, if it has exited.
ExitOf(stage) ==
    {i \in Events : run.trace[i].stage = stage /\ run.trace[i].ev = "exit"}

\* The status the Run stage is to hand on for the emulator's exit code: the
\* access violation counts as success.
RunStatus(rc) == IF rc = ACCESS_VIOLATION THEN EXIT_0 ELSE rc

\* C29: a script that has ended after its emulator exited ends with the
\* normalized exit code of the emulator, 0 for the access violation; one
\* that has ended on a failed Build or Patch ends with that stage's code as
\* it was.
C29_ScriptStatusNormalised ==
    run.pc = "exited" =>
        /\ \A i \in ExitOf("Run") :
               run.status = PyInt(RunStatus(run.trace[i].rc))
        /\ \A i \in ExitOf("Build") \cup ExitOf("Patch") :
               run.trace[i].rc # EXIT_0 => run.status = PyInt(run.trace[i].rc)

(***************************************************************************)
(* The SBSA Runner next to a configuration provider whose TPM value is     *)
(* changed while the Runner runs: env is an object the Runner shares with  *)
(* its caller and hands to the thread.                                     *)
(***************************************************************************)
\* The values TPM_DEV is changed to.
OtherTpmValues == {None, PyStr("/tmp/other.sock")}

\* TPM_DEV is given another value after the Runner has assembled the command
\* and started the thread, before the thread has read it.
ProviderSetTpm ==
    /\ run.plugin = "SBSA"
    /\ run.tpm = "started"
    /\ UNCHANGED <<builder, hist>>
    /\ \E v \in OtherTpmValues :
           /\ v # run.env.TPM_DEV
           /\ run' = [run EXCEPT !.env.TPM_DEV = v]

TpmNext == RunnerNext \/ ProviderSetTpm

TpmSpec == RunnerInit /\ [][TpmNext]_vars

\* C30: the socket path swtpm is started on is the path of the emulator's
\* TPM character-device token, also when TPM_DEV is changed after the
\* command was assembled.
C30_CompanionPathMatchesToken ==
    run.tpm_path # None =>
        \E k \in 1..Len(builder.args) :
            builder.args[k] = "socket,id=chrtpm,path=" \o run.tpm_path.s

(***************************************************************************)
(* Properties of the version threshold of the console handling.            *)
(***************************************************************************)
\* The major component of the probed version, read as an integer.
MajorInt(qemu_version) ==
    CHOOSE n \in 0..99 : NatStr(n) = Major(qemu_version)

\* The Runner has passed the place where it captures the console mode.
PastConsoleSave ==
    run.pc \in {"ready", "running", "exited", "normalized", "restored",
                "joining", "returned"}

\* C31: on a Windows host the Runners take the console handle, so as to
\* capture and restore the console mode, exactly for the probed versions
\* whose major component, read as an integer, is at least 8: for 8, 9, 10
\* and 11, not for 4 and 7.
C31_ThresholdIsNumeric ==
    run.os_name = "nt" /\ PastConsoleSave =>
        /\ IsV8OrLater(run.qemu_version) <=> MajorInt(run.qemu_version) >= 8
        /\ run.std_handle # "unbound" <=> MajorInt(run.qemu_version) >= 8

(***************************************************************************)
(* The Runner under fair scheduling: once the command is assembled, the    *)
(* control thread and the TPM thread take their next step when they can.   *)
(* Nothing makes the emulator or the companion process exit.               *)
(***************************************************************************)
\* A step of the control thread of Runner(env) once the command is
\* assembled.
ControlStep ==
    \/ RunnerSaveConsole
    \/ RunnerLaunch
    \/ RunnerNormalize
    \/ RunnerRestore
    \/ RunnerJoin
    \/ RunnerReturn

FairRunnerSpec ==
    /\ RunnerInit
    /\ [][RunnerNext]_vars
    /\ WF_vars(ControlStep)
    /\ WF_vars(TpmStart)

\* The Runner has started the TPM thread.
ThreadStarted == run.tpm # "none"

\* The companion has ended: swtpm exited, or never got started.
CompanionExited == run.tpm \in {"done", "failed"}

\* C32: an SBSA Runner that started the TPM thread returns only after the
\* emulator and the companion have both exited; once both have exited it
\* returns in the end; and in a run whose companion never exits it never
\* returns.
C32_ReturnsOnlyAfterBothExit ==
    /\ [](ThreadStarted /\ run.pc = "returned"
              => EmulatorExited /\ CompanionExited)
    /\ (ThreadStarted /\ EmulatorExited /\ CompanionExited)
           ~> (run.pc = "returned")
    /\ <>[](ThreadStarted /\ ~CompanionExited) => [](run.pc # "returned")

\* The Runner has returned after the emulator and then the companion ended.
C32_Witness ==
    /\ run.plugin = "SBSA"
    /\ TpmConfigured
    /\ run.pc = "returned"
    /\ run.tpm = "done"
    /\ EmulatorExited

\* C33: in the SBSA Runner the TPM thread, when there is one, is started
\* before the emulator is launched, and the launch waits for nothing: it can
\* be taken whatever the companion is doing, also while swtpm has not been
\* started yet and after it failed to start.
C33_LaunchNotGatedOnCompanion ==
    run.plugin = "SBSA" =>
        /\ TpmConfigured /\ PastConsoleSave => ThreadStarted
        /\ run.pc = "ready" => ENABLED RunnerLaunch

\* The emulator runs while the thread has not started swtpm yet.
C33_Witness ==
    /\ run.plugin = "SBSA"
    /\ run.pc = "running"
    /\ run.tpm = "started"

(***************************************************************************)
(* The shape of the token sequence.                                        *)
(***************************************************************************)
\* No call made so far is a with_custom call.
CustomFree == \A i \in Calls : hist[i].op # "with_custom"

\* The tokens at the odd places of ts, counted from 1.
OddPlaces(ts) == {k \in 1..Len(ts) : k % 2 = 1}

\* C34: in every builder state reached without with_custom the tokens are
\* (flag, value) pairs: their number is even, every token at an odd place
\* starts with "-", and the token that follows it is a value, not a flag.
C34_TokensArePairs ==
    CustomFree =>
        /\ Len(builder.args) % 2 = 0
        /\ \A k \in OddPlaces(builder.args) :
               /\ StartsWith(builder.args[k], "-")
               /\ k + 1 <= Len(builder.args)
               /\ ~StartsWith(builder.args[k + 1], "-")

\* Two different operations other than with_custom have each appended
\* tokens.
C34_Witness ==
    /\ CustomFree
    /\ Len(hist) = MaxCalls
    /\ hist[1].op # hist[2].op
    /\ \A i \in Calls : Appended(i) # <<>>

\* The flags of the categories that take one value.
SingleValued ==
    {"-L", "-machine", "-cpu", "-smp", "-m", "-gdb", "-monitor", "-tpmdev",
     "-vga", "-display"}

\* How many times token t occurs in ts.
Count(ts, t) == Cardinality(PlacesOf(ts, t))

\* C35: in every builder state reached without with_custom each
\* single-valued flag occurs at most once, -net and -netdev occur at most
\* once between them, and -smbios occurs zero or three times.
C35_CategoryFlagsOccurOnce ==
    CustomFree =>
        /\ \A f \in SingleValued : Count(builder.args, f) <= 1
        /\ Count(builder.args, "-net") + Count(builder.args, "-netdev") <= 1
        /\ Count(builder.args, "-smbios") \in {0, 3}

\* Networking was enabled by one call and a second call asked to disable
\* it: the tokens hold the one -netdev.
C35_Witness ==
    /\ CustomFree
    /\ Repeated(1)
    /\ hist[1].op = "with_network"
    /\ Truthy(hist[1].args[1])
    /\ ~Truthy(hist[2].args[1])
    /\ hist[1].exc = ""
    /\ Count(builder.args, "-netdev") = 1
    /\ Count(builder.args, "-net") = 0

\* C36: a call that skips an empty argument (with_rom_path, with_firmware,
\* with_gdb_server and with_monitor_port given a falsy first argument,
\* with_tpm given None) returns without changing the tokens or any flag;
\* when the category was not configured before it, the next call of the
\* same operation with a non-empty argument appends tokens and sets the
\* category's flag.
C36_SkippedCallLeavesNoTrace ==
    \A i \in Calls :
        SkipsEmpty(i) =>
            /\ hist[i].exc = ""
            /\ hist[i].after.args = hist[i].before.args
            /\ \A f \in Flags : hist[i].after[f] = hist[i].before[f]
            /\ ( /\ Repeated(i)
                 /\ Truthy(hist[i + 1].args[1])
                 /\ ~hist[i].before[FlagOf[hist[i].op]] )
               => /\ Appended(i + 1) # <<>>
                  /\ IsPrefix(hist[i].before.args, hist[i + 1].after.args)
                  /\ Configures(i + 1)

\* A skipped call was followed by a call of the same operation with a
\* non-empty argument, which appended tokens.
C36_Witness ==
    /\ Repeated(1)
    /\ SkipsEmpty(1)
    /\ hist[1].op = "with_gdb_server"
    /\ Truthy(hist[2].args[1])
    /\ Appended(2) # <<>>

(***************************************************************************)
(* Networking in the Q35 Runner.                                           *)
(***************************************************************************)
\* The ENABLE_NETWORK setting as the Runner reads it.
NetworkEnabled == Truthy(GetBool(run.env, "ENABLE_NETWORK", False))

\* The with_network call of the chain has been made.
NetworkCalls == {i \in Calls : hist[i].op = "with_network"}

\* C37: in the Q35 Runner the with_network call never raises; its tokens are
\* -net none, and no -netdev, exactly when ENABLE_NETWORK is false; and when
\* ENABLE_NETWORK is true they are a user-mode -netdev and a network device.
C37_NetworkFollowsEnableNetwork ==
    run.plugin = "Q35" =>
        \A i \in NetworkCalls :
            /\ hist[i].exc = ""
            /\ ~NetworkEnabled
                   <=> /\ FollowedBy(Appended(i), "-net", "none")
                       /\ PlacesOf(Appended(i), "-netdev") = {}
            /\ NetworkEnabled
                   => /\ \E k \in PlacesOf(Appended(i), "-netdev") :
                             StartsWith(Appended(i)[k + 1], "user,")
                      /\ \E k \in PlacesOf(Appended(i), "-device") :
                             Appended(i)[k + 1] \in {"e1000,netdev=net0",
                                                     "virtio-net-pci,netdev=net0"}

(***************************************************************************)
(* The environment of the script and of its children.                      *)
(***************************************************************************)
\* The children started so far.
Children == 1..Len(run.spawns)

\* C38: the environment handed to the build child differs from the
\* script's own only when the build command holds -Zunstable-options, and
\* then only in RUSTC_BOOTSTRAP, which is "1"; the children of Patch and Run
\* get the script's own environment; and no step changes the script's own
\* environment.
C38_BootstrapOnlyForBuildChild ==
    /\ [](\A i \in Children :
             LET child == run.spawns[i]
                 unstable == ListContains(run.build_cmd, "-Zunstable-options")
             IN  IF child.stage = "Build"
                 THEN /\ unstable => child.env.RUSTC_BOOTSTRAP = PyStr("1")
                      /\ ~unstable => child.env = run.environ
                 ELSE child.env = run.environ)
    /\ [][run'.environ = run.environ]_vars

\* The three children were started by a script whose own environment has no
\* RUSTC_BOOTSTRAP: the build child got it, the emulator did not.
C38_Witness ==
    /\ Len(run.spawns) = 3
    /\ run.environ.RUSTC_BOOTSTRAP = None
    /\ run.spawns[1] = Spawned("Build", [RUSTC_BOOTSTRAP |-> PyStr("1")])
    /\ \E i \in Children : run.spawns[i] = Spawned("Run", run.environ)
====
